---- MODULE Spec2Model ----
(***************************************************************************)
(* Screenshot resolution pipeline of app-store-scraper: the Screenshot     *)
(* Validator with its TTL cache (lib/screenshot-validator.js) and the      *)
(* Screenshot Chain orchestrator (lib/screenshot-chain.js).                *)
(*                                                                         *)
(* Representation of data.  An element of a screenshot array is a record   *)
(* with a field kind:                                                      *)
(*   "str"  a URL string, written                                          *)
(*            <dir>/<name>[_<seq>_of_<of>][_Slice_<slice>][_<w>x<h>]       *)
(*                 [<ver>].<ext>                                           *)
(*          name is alphabetic, seq = 0 / slice = -1 / w = 0 mean that     *)
(*          the token is absent, ver is "" or one of the version markers   *)
(*          "_new" "_orig" "_retry" "_thumb" "_old";                       *)
(*   "arr"  an array (what SmartFilter.aggressiveDeduplicate pushes);      *)
(*   "num"  any other truthy value that is not a string;                   *)
(*   "null" a falsy value.                                                 *)
(* A confidence c of the code is the integer c * Scale here; every         *)
(* multiplier of the code is a multiple of 0.1, so the products are exact. *)
(***************************************************************************)
EXTENDS Integers, Sequences, FiniteSets, TLC

VARIABLES
    now,              \* Date.now(), in ms
    validationCache,  \* ScreenshotValidator.validationCache: key -> entry
    vcall,            \* the validateScreenshots calls in flight, per caller
    lastStore,        \* history: per key, the last entry stored since the last clear
    lastReturn,       \* history: the validateScreenshots call that returned last
    pc,               \* ScreenshotChain.extract: where the call is
    appData,          \* extract's primary record
    options,          \* extract's options
    attempt,          \* extract's loop counter
    lastError,        \* extract's lastError
    outcome,          \* what extract returned, and through which stage
    trail,            \* history: the attempts and waits of the call, in order
    calls,            \* how many calls the pipeline objects have served
    firstCall,        \* history: the first call served, with what it returned
    lastCall,         \* history: the call served last, with what it returned
    interleaved       \* history: a call with another input was served since

vars == <<now, validationCache, vcall, lastStore, lastReturn,
          pc, appData, options, attempt, lastError, outcome, trail,
          calls, firstCall, lastCall, interleaved>>

valVars == <<now, validationCache, vcall, lastStore, lastReturn>>
chainVars == <<pc, appData, options, attempt, lastError, outcome, trail>>
pipeVars == <<calls, firstCall, lastCall, interleaved>>

(***************************************************************************)
(* Helpers                                                                 *)
(***************************************************************************)
Min(a, b) == IF a < b THEN a ELSE b
Max(a, b) == IF a > b THEN a ELSE b

RECURSIVE Pow2(_)
Pow2(n) == IF n <= 0 THEN 1 ELSE 2 * Pow2(n - 1)

Url(dir, name, seq, of, slice, w, h, ver, ext) ==
    [kind |-> "str", dir |-> dir, name |-> name, seq |-> seq, of |-> of,
     slice |-> slice, w |-> w, h |-> h, ver |-> ver, ext |-> ext]

IsString(e) == e.kind = "str"
Truthy(e) == e.kind # "null"

NullElem == [kind |-> "null"]
NumElem == [kind |-> "num"]
ArrElem(members) == [kind |-> "arr", members |-> members]

Scale == 100 * 100

\* data.field || [], the field being an array when it is there
Get(data, field) == IF field \in DOMAIN data THEN data[field] ELSE <<>>

\* c * (tenths / 10), for a confidence c
Times(c, tenths) == (c * tenths) \div 10

(***************************************************************************)
(* ScreenshotValidator                                                     *)
(***************************************************************************)
maxCacheAge == 60000

NoEntry == [none |-> TRUE]

\* variant: the key leaves the country out
CacheKeyWithoutCountry(appId, country) == <<appId, "us">>

\* `${appId}_${country}`
CacheKey(appId, country) == <<appId, country>>

\* variant: an entry of age maxCacheAge is still served
CacheHitInclusive(cached, t) ==
    cached # NoEntry /\ (t - cached.timestamp) <= maxCacheAge

\* cached && (Date.now() - cached.timestamp) < this.maxCacheAge
CacheHit(cached, t) == cached # NoEntry /\ (t - cached.timestamp) < maxCacheAge

PhoneAndTablet(data) == Get(data, "screenshots") \o Get(data, "ipadScreenshots")

\* _extractVisualIdentifier: the first size token is removed with the rest of
\* its path segment, then the first of _new/_orig/_retry/_thumb, and what is
\* left of the file name up to its first '.' is the identifier
ExtractVisualIdentifier(url) ==
    <<url.name, url.seq, url.of, url.slice,
      IF url.w > 0 THEN "_"
      ELSE IF url.ver = "_old" THEN "_old" ELSE "">>

\* _countVisualDuplicates
CountVisualDuplicates(urls) ==
    LET RECURSIVE CountDupFrom(_, _)
        CountDupFrom(i, seen) ==
            IF i > Len(urls) THEN 0
            ELSE IF ~Truthy(urls[i]) THEN CountDupFrom(i + 1, seen)
            ELSE LET id == ExtractVisualIdentifier(urls[i])
                 IN IF id \in seen THEN 1 + CountDupFrom(i + 1, seen)
                    ELSE CountDupFrom(i + 1, seen \cup {id})
    IN  CountDupFrom(1, {})

\* _detectExcessiveDuplicates: duplicates > length * 0.4
DetectExcessiveDuplicates(screenshots, ipadScreenshots) ==
    (IF CountVisualDuplicates(screenshots) * 10 > Len(screenshots) * 4
     THEN <<"excessive_iphone_duplicates">> ELSE <<>>)
    \o (IF CountVisualDuplicates(ipadScreenshots) * 10 > Len(ipadScreenshots) * 4
        THEN <<"excessive_ipad_duplicates">> ELSE <<>>)

\* _detectContentMismatches
DetectContentMismatches(data) ==
    LET ThreadsId == "6446901002"
        \* url.toLowerCase().includes('mastodon' | 'toot' | 'fediverse')
        HasProblemPattern(url) == url.name \in {"mastodon", "toot", "fediverse"}
    IN  IF data.id = ThreadsId
           /\ \E i \in 1..Len(PhoneAndTablet(data)) :
                LET u == PhoneAndTablet(data)[i] IN Truthy(u) /\ HasProblemPattern(u)
        THEN <<"threads_mastodon_mismatch">> ELSE <<>>

\* _analyzeScreenshotPatterns raises a TypeError when it calls a string method
\* on a truthy element that is not a string (_extractVisualIdentifier at the
\* latest)
AnalyzeThrows(data) ==
    \E i \in 1..Len(PhoneAndTablet(data)) :
        LET u == PhoneAndTablet(data)[i] IN Truthy(u) /\ ~IsString(u)

\* _analyzeScreenshotPatterns, when it does not raise
AnalyzeScreenshotPatterns(data) ==
    LET \* url.includes('_old') || '_archived' || '_legacy' || a date path
        HasOldPattern(url) == url.ver = "_old"
        HasOldPatterns(all) ==
            \E i \in 1..Len(all) : Truthy(all[i]) /\ HasOldPattern(all[i])
        \* the issues and the confidence built from what the three
        \* detections found: confidence *= 0.5, *= 0.2, *= 0.6
        PatternIssues(stale, mismatches, duplicates) ==
            [issues |-> (IF stale THEN <<"potentially_stale_urls">> ELSE <<>>)
                            \o mismatches \o duplicates,
             confidence |->
                Times(Times(Times(Scale, IF stale THEN 5 ELSE 10),
                            IF Len(mismatches) > 0 THEN 2 ELSE 10),
                      IF Len(duplicates) > 0 THEN 6 ELSE 10)]
    IN  PatternIssues(HasOldPatterns(PhoneAndTablet(data)),
                      DetectContentMismatches(data),
                      DetectExcessiveDuplicates(Get(data, "screenshots"),
                                                Get(data, "ipadScreenshots")))

\* _validateScreenshotUrls: Math.min(3, allUrls.length)
SampleSize(data) == Min(3, Len(PhoneAndTablet(data)))

\* _validateScreenshotUrls, given how many of the sampled URLs answered 200
ValidateScreenshotUrls(data, accessibleCount) ==
    IF Len(PhoneAndTablet(data)) = 0
    THEN [issues |-> <<"no_screenshots">>, confidence |-> Times(Scale, 3)]
    ELSE IF 2 * accessibleCount < SampleSize(data)
    THEN [issues |-> <<"screenshots_not_accessible">>, confidence |-> Times(Scale, 3)]
    ELSE IF 5 * accessibleCount < 4 * SampleSize(data)
    THEN [issues |-> <<"some_screenshots_inaccessible">>, confidence |-> Times(Scale, 7)]
    ELSE [issues |-> <<>>, confidence |-> Scale]

\* _generateRecommendations
GenerateRecommendations(issues, confidence) ==
    LET Includes(seq, x) == \E i \in 1..Len(seq) : seq[i] = x
        OrManualReview(recommendations) ==
            IF Len(recommendations) = 0 /\ Len(issues) > 0
            THEN <<"manual_review">> ELSE recommendations
    IN  OrManualReview(
            (IF confidence < Times(Scale, 3) THEN <<"force_refresh">>
             ELSE IF confidence < Times(Scale, 7) THEN <<"clear_cache">>
             ELSE <<>>)
            \o (IF Includes(issues, "excessive_iphone_duplicates")
                   \/ Includes(issues, "excessive_ipad_duplicates")
                THEN <<"rerun_deduplication">> ELSE <<>>)
            \o (IF Includes(issues, "threads_mastodon_mismatch")
                THEN <<"force_web_scraping">> ELSE <<>>)
            \o (IF Includes(issues, "screenshots_not_accessible")
                THEN <<"refresh_screenshot_urls">> ELSE <<>>))

\* variant: the checks of the record run before the app page is looked at
AppNotFoundAfterChecks ==
    [isValid |-> FALSE, confidence |-> 0,
     issues |-> <<"app_not_found", "stale_screenshot_urls">>,
     recommendations |-> <<"app_removed">>]

\* _performValidation when the app page does not exist
AppNotFoundResult ==
    [isValid |-> FALSE, confidence |-> 0, issues |-> <<"app_not_found">>,
     recommendations |-> <<"app_removed">>]

\* variant: isValid is settled before the check of the URLs
PerformValidationEarlyVerdict(data, accessibleCount) ==
    [isValid |-> AnalyzeScreenshotPatterns(data).confidence > Times(Scale, 7)
                 /\ Len(AnalyzeScreenshotPatterns(data).issues) = 0,
     confidence |-> (AnalyzeScreenshotPatterns(data).confidence
                     * ValidateScreenshotUrls(data, accessibleCount).confidence)
                        \div Scale,
     issues |-> AnalyzeScreenshotPatterns(data).issues
                \o ValidateScreenshotUrls(data, accessibleCount).issues,
     recommendations |-> <<>>]

\* _performValidation when the app page exists and nothing raised
PerformValidation(data, accessibleCount) ==
    LET \* the result, once the issues and the confidence are held
        ValidationOf(issues, confidence) ==
            [isValid |-> confidence > Times(Scale, 7) /\ Len(issues) = 0,
             confidence |-> confidence,
             issues |-> issues,
             recommendations |-> GenerateRecommendations(issues, confidence)]
        \* issues.push(...), confidence *= ..., for the two checks that
        \* follow the check of the app page
        CombineChecks(screenshotIssues, urlValidation) ==
            ValidationOf(screenshotIssues.issues \o urlValidation.issues,
                         (screenshotIssues.confidence * urlValidation.confidence)
                             \div Scale)
    IN  CombineChecks(AnalyzeScreenshotPatterns(data),
                      ValidateScreenshotUrls(data, accessibleCount))

\* validateScreenshots' catch block
ValidationFailedResult ==
    [isValid |-> FALSE, confidence |-> 0, issues |-> <<"validation_failed">>,
     recommendations |-> <<"force_refresh">>]

\* variant: an entry that is present is kept
CacheSetIfAbsent(cache, key, t, result) ==
    IF cache[key] = NoEntry
    THEN [cache EXCEPT ![key] = [timestamp |-> t, result |-> result]]
    ELSE cache

\* this.validationCache.set(cacheKey, {timestamp: Date.now(), result})
CacheSet(cache, key, t, result) ==
    [cache EXCEPT ![key] = [timestamp |-> t, result |-> result]]

(***************************************************************************)
(* The text of a URL: what String.length, localeCompare and the counting   *)
(* of '_' see                                                              *)
(***************************************************************************)
Text(url) ==
    LET DigitChars == <<"0", "1", "2", "3", "4", "5", "6", "7", "8", "9">>
        RECURSIVE Digits(_)
        Digits(n) ==
            IF n < 10 THEN <<DigitChars[n + 1]>>
            ELSE Digits(n \div 10) \o <<DigitChars[(n % 10) + 1]>>
        \* the characters of the words URLs are made of
        Spell(word) ==
            CASE word = "" -> <<>>
              [] word \in {"a", "b", "c", "d", "e", "f", "g", "h"} -> <<word>>
              [] word = "0123456789abcdef" ->
                   <<"0", "1", "2", "3", "4", "5", "6", "7", "8", "9",
                     "a", "b", "c", "d", "e", "f">>
              [] word = "fedcba9876543210" ->
                   <<"f", "e", "d", "c", "b", "a", "9", "8", "7", "6",
                     "5", "4", "3", "2", "1", "0">>
              [] word = "Home" -> <<"H", "o", "m", "e">>
              [] word = "Menu" -> <<"M", "e", "n", "u">>
              [] word = "mastodon" -> <<"m", "a", "s", "t", "o", "d", "o", "n">>
              [] word = "_new" -> <<"_", "n", "e", "w">>
              [] word = "_orig" -> <<"_", "o", "r", "i", "g">>
              [] word = "_retry" -> <<"_", "r", "e", "t", "r", "y">>
              [] word = "_thumb" -> <<"_", "t", "h", "u", "m", "b">>
              [] word = "_old" -> <<"_", "o", "l", "d">>
              [] word = "jpg" -> <<"j", "p", "g">>
              [] word = "png" -> <<"p", "n", "g">>
        Origin == <<"h", "t", "t", "p", "s", ":", "/", "/", "x", "/">>
    IN  Origin \o Spell(url.dir) \o <<"/">> \o Spell(url.name)
        \o (IF url.seq > 0
            THEN <<"_">> \o Digits(url.seq) \o <<"_", "o", "f", "_">> \o Digits(url.of)
            ELSE <<>>)
        \o (IF url.slice >= 0
            THEN <<"_", "S", "l", "i", "c", "e", "_">> \o Digits(url.slice)
            ELSE <<>>)
        \o (IF url.w > 0
            THEN <<"_">> \o Digits(url.w) \o <<"x">> \o Digits(url.h)
            ELSE <<>>)
        \o Spell(url.ver) \o <<".">> \o Spell(url.ext)

\* (url.match(/_/g) || []).length
CountUnderscores(url) ==
    LET text == Text(url)
    IN  Cardinality({i \in 1..Len(text) : text[i] = "_"})

\* a.localeCompare(b), in the collation order of these characters:
\* punctuation, then digits, then letters, a capital after its small letter
\* only when nothing else differs
LocaleCompare(a, b) ==
    LET Alphabet ==
            <<"_", "-", ":", ".", "/",
              "0", "1", "2", "3", "4", "5", "6", "7", "8", "9",
              "a", "b", "c", "d", "e", "f", "g", "h", "i", "j", "k", "l", "m",
              "n", "o", "p", "q", "r", "s", "t", "u", "v", "w", "x", "y", "z">>
        Capitals == <<"H", "M", "S">>
        SmallOfCapitals == <<"h", "m", "s">>
        IsCapital(c) == \E i \in 1..Len(Capitals) : Capitals[i] = c
        ToSmall(c) ==
            IF IsCapital(c)
            THEN SmallOfCapitals[CHOOSE i \in 1..Len(Capitals) : Capitals[i] = c]
            ELSE c
        PrimaryWeight(c) == CHOOSE i \in 1..Len(Alphabet) : Alphabet[i] = ToSmall(c)
        CaseWeight(c) == IF IsCapital(c) THEN 1 ELSE 0
        \* lexicographic comparison of two sequences of weights: -1, 0 or 1
        RECURSIVE CompareWeights(_, _)
        CompareWeights(s, t) ==
            IF s = <<>> /\ t = <<>> THEN 0
            ELSE IF s = <<>> THEN -1
            ELSE IF t = <<>> THEN 1
            ELSE IF Head(s) < Head(t) THEN -1
            ELSE IF Head(s) > Head(t) THEN 1
            ELSE CompareWeights(Tail(s), Tail(t))
        OrElse(first, second) == IF first # 0 THEN first ELSE second
        CompareTexts(ta, tb) ==
            OrElse(CompareWeights([i \in 1..Len(ta) |-> PrimaryWeight(ta[i])],
                                  [i \in 1..Len(tb) |-> PrimaryWeight(tb[i])]),
                   CompareWeights([i \in 1..Len(ta) |-> CaseWeight(ta[i])],
                                  [i \in 1..Len(tb) |-> CaseWeight(tb[i])]))
    IN  CompareTexts(Text(a), Text(b))

(***************************************************************************)
(* Array helpers                                                           *)
(***************************************************************************)
\* the elements of s whose index satisfies mask, in order
Pick(s, mask) ==
    LET RECURSIVE PickFrom(_)
        PickFrom(i) ==
            IF i > Len(s) THEN <<>>
            ELSE (IF mask[i] THEN <<s[i]>> ELSE <<>>) \o PickFrom(i + 1)
    IN  PickFrom(1)

\* Array.prototype.slice(0, n)
Take(s, n) == SubSeq(s, 1, Min(n, Len(s)))

\* Array.prototype.sort(comparator); after[i][j] says that the comparator
\* puts s[i] after s[j].  The sort is stable: an element moves left only past
\* elements it must precede.
SortBy(s, after) ==
    LET RECURSIVE InsertIdx(_, _)
        InsertIdx(out, i) ==
            IF out = <<>> THEN <<i>>
            ELSE LET last == out[Len(out)]
                 IN IF after[last][i]
                    THEN InsertIdx(SubSeq(out, 1, Len(out) - 1), i) \o <<last>>
                    ELSE out \o <<i>>
        RECURSIVE SortIdxFrom(_, _)
        SortIdxFrom(out, i) ==
            IF i > Len(s) THEN out
            ELSE SortIdxFrom(InsertIdx(out, i), i + 1)
        Permute(idx) == [k \in 1..Len(s) |-> s[idx[k]]]
    IN  Permute(SortIdxFrom(<<>>, 1))

\* the groups of a Map filled by pushing s[i] under ids[i]: in the order in
\* which the keys were first set
GroupsOf(s, ids) ==
    LET GroupsAt(firsts) ==
            [g \in 1..Len(firsts) |->
                Pick(s, [i \in 1..Len(s) |-> ids[i] = ids[firsts[g]]])]
    IN  GroupsAt(Pick([i \in 1..Len(s) |-> i],
                      [i \in 1..Len(s) |-> \A j \in 1..(i - 1) : ids[j] # ids[i]]))

\* [...new Set(array)].filter(Boolean): equal strings and equal numbers are
\* one member, two arrays are two objects
RemoveExactDuplicates(s) ==
    Pick(s, [i \in 1..Len(s) |->
               /\ Truthy(s[i])
               /\ (s[i].kind = "arr" \/ \A j \in 1..(i - 1) : s[j] # s[i])])
(***************************************************************************)
(* What the regular expressions of the pipeline find in a URL.  The file   *)
(* name starts with letters and holds no '-', so /[/-](\d+)[^/]*\.[^/]*$/  *)
(* (a numbered suffix) matches nothing; a directory of sixteen characters  *)
(* out of [a-f0-9] is what /[a-f0-9-]{16,}/ matches.                       *)
(***************************************************************************)
\* /(\d+)_of_(\d+)/
HasSequence(url) == url.seq > 0
\* /Slice_(\d+)/
HasSlice(url) == url.slice >= 0
\* /[a-f0-9-]{16,}/
HasHash(url) == url.dir \in {"0123456789abcdef", "fedcba9876543210"}

\* url.match(/(\d+)x(\d+)/): width * height, 0 without a size token
Total(url) == IF url.w > 0 THEN url.w * url.h ELSE 0

\* filename.replace(/\d+x\d+[^_-]*/, '').replace(/_new|_orig|_retry|_thumb/, '')
\*         .replace(/[-_]+$/, ''), the file name being what precedes the first
\* '.' of the last path segment: PatternAnalyzer.extractBaseName,
\* SmartFilter.extractContentIdentifier and the name in
\* ContentDeduplicator.fallbackId
ExtractBaseName(url) ==
    [name |-> url.name, seq |-> url.seq, of |-> url.of, slice |-> url.slice,
     rest |-> IF url.ver = "_old"
              THEN (IF url.w > 0 THEN "__old" ELSE "_old")
              ELSE ""]

(***************************************************************************)
(* ContentDeduplicator                                                     *)
(***************************************************************************)
\* analyzeUrlPatterns: the counts, and the found pattern with the highest
\* count, the first of sequential, slice, hash among equals
AnalyzeUrlPatterns(urls) ==
    LET CountWhere(mask) == Len(Pick(urls, mask))
        PatternCounts(sequential, slice, hash) ==
            [sequential |-> sequential, slice |-> slice, hash |-> hash,
             dominantPattern |->
                IF sequential > 0 /\ sequential >= slice /\ sequential >= hash
                THEN "sequential"
                ELSE IF slice > 0 /\ slice >= hash THEN "slice"
                ELSE IF hash > 0 THEN "hash"
                ELSE "unknown"]
    IN  PatternCounts(CountWhere([i \in 1..Len(urls) |-> HasSequence(urls[i])]),
                      CountWhere([i \in 1..Len(urls) |-> HasSlice(urls[i])]),
                      CountWhere([i \in 1..Len(urls) |-> HasHash(urls[i])]))

fallbackId(url) == [by |-> "fallback", base |-> ExtractBaseName(url)]

extractContentId(url, analysis) ==
    CASE analysis.dominantPattern = "sequential" ->
           IF HasSequence(url) THEN [by |-> "seq", n |-> url.seq] ELSE fallbackId(url)
      [] analysis.dominantPattern = "slice" ->
           IF HasSlice(url) THEN [by |-> "slice", n |-> url.slice] ELSE fallbackId(url)
      [] analysis.dominantPattern = "hash" ->
           IF HasHash(url) THEN [by |-> "hash", dir |-> url.dir] ELSE fallbackId(url)
      [] OTHER -> fallbackId(url)

groupByContent(urls, analysis) ==
    GroupsOf(urls, [i \in 1..Len(urls) |-> extractContentId(urls[i], analysis)])

Sign(n) == IF n < 0 THEN -1 ELSE IF n > 0 THEN 1 ELSE 0

selectBestUrl(urls, platform) ==
    LET \* the comparator
        CompareVariations(a, b) ==
            LET aNew == a.ver = "_new"
                bNew == b.ver = "_new"
                aOld == a.ver \in {"_orig", "_retry"}
                bOld == b.ver \in {"_orig", "_retry"}
                aThumb == a.ver = "_thumb"
                bThumb == b.ver = "_thumb"
            IN IF aNew /\ ~bNew THEN -1
               ELSE IF ~aNew /\ bNew THEN 1
               ELSE IF aOld /\ ~bOld THEN 1
               ELSE IF ~aOld /\ bOld THEN -1
               ELSE IF Total(a) # Total(b) THEN Sign(Total(b) - Total(a))
               ELSE IF aThumb /\ ~bThumb THEN 1
               ELSE IF ~aThumb /\ bThumb THEN -1
               ELSE IF platform = "iPad"
               THEN Sign(CountUnderscores(a) - CountUnderscores(b))
               ELSE Sign(Len(Text(a)) - Len(Text(b)))
    IN  SortBy(urls, [i \in 1..Len(urls) |-> [j \in 1..Len(urls) |->
                        CompareVariations(urls[i], urls[j]) > 0]])[1]

extractSequenceNumber(url) == IF HasSequence(url) THEN url.seq ELSE url.slice

sortRepresentatives(urls) ==
    LET HasSequenceNumber(url) == HasSequence(url) \/ HasSlice(url)
        \* the comparator
        CompareRepresentatives(a, b) ==
            IF HasSequenceNumber(a) /\ HasSequenceNumber(b)
            THEN Sign(extractSequenceNumber(a) - extractSequenceNumber(b))
            ELSE LocaleCompare(a, b)
    IN  SortBy(urls, [i \in 1..Len(urls) |-> [j \in 1..Len(urls) |->
                        CompareRepresentatives(urls[i], urls[j]) > 0]])

\* variant: a group of one URL is not represented
RepresentGroupsOfSeveral(contentGroups, platform) ==
    sortRepresentatives(
        [g \in 1..Len(Pick(contentGroups,
                           [h \in 1..Len(contentGroups) |-> Len(contentGroups[h]) > 1])) |->
            selectBestUrl(Pick(contentGroups,
                               [h \in 1..Len(contentGroups) |->
                                   Len(contentGroups[h]) > 1])[g], platform)])

selectBestRepresentatives(contentGroups, platform) ==
    sortRepresentatives(
        [g \in 1..Len(contentGroups) |->
            IF Len(contentGroups[g]) = 1 THEN contentGroups[g][1]
            ELSE selectBestUrl(contentGroups[g], platform)])

\* deduplicate, when it does not raise: analyzeUrlPatterns and groupByContent
\* skip the falsy elements
Deduplicate(screenshots, platform) ==
    LET DeduplicateUrls(urls) ==
            IF Len(urls) = 0 THEN <<>>
            ELSE selectBestRepresentatives(
                    groupByContent(urls, AnalyzeUrlPatterns(urls)), platform)
    IN  DeduplicateUrls(Pick(screenshots,
                             [i \in 1..Len(screenshots) |-> Truthy(screenshots[i])]))

\* deduplicate raises a TypeError at url.match when an element that is not
\* falsy is not a string
DeduplicateThrows(screenshots) ==
    \E i \in 1..Len(screenshots) : Truthy(screenshots[i]) /\ ~IsString(screenshots[i])
(***************************************************************************)
(* PatternAnalyzer.  A ratio of the code is kept as its numerator and      *)
(* denominator, and compared by cross-multiplication.                      *)
(***************************************************************************)
Indices(s) == 1..Len(s)

SetMax(S) == CHOOSE x \in S : \A y \in S : y <= x

\* detectSequentialPattern
detectSequentialPattern(screenshots) ==
    LET \* the sequence numbers met with this total
        SequenceNumbers(sequentialUrls, total) ==
            {sequentialUrls[i].seq :
                i \in {j \in Indices(sequentialUrls) : sequentialUrls[j].of = total}}
        \* the total whose set of sequence numbers is the largest, the first
        \* met among equals
        MostCommonTotal(sequentialUrls) ==
            sequentialUrls[
                CHOOSE i \in Indices(sequentialUrls) :
                    /\ \A j \in Indices(sequentialUrls) :
                         Cardinality(SequenceNumbers(sequentialUrls, sequentialUrls[j].of))
                           <= Cardinality(SequenceNumbers(sequentialUrls, sequentialUrls[i].of))
                    /\ \A j \in 1..(i - 1) :
                         Cardinality(SequenceNumbers(sequentialUrls, sequentialUrls[j].of))
                           < Cardinality(SequenceNumbers(sequentialUrls, sequentialUrls[i].of))
            ].of
        \* completeness = foundNumbers.size / expectedCount,
        \* isComplete = it > 0.8
        SequentialPattern(sequentialUrls, expectedCount) ==
            [found |-> TRUE,
             expectedCount |-> expectedCount,
             actualCount |-> Len(sequentialUrls),
             isComplete |->
                10 * Cardinality(SequenceNumbers(sequentialUrls, expectedCount))
                  > 8 * expectedCount]
        SequentialPatternOf(sequentialUrls) ==
            IF Len(sequentialUrls) = 0
            THEN [found |-> FALSE, expectedCount |-> 0, actualCount |-> 0,
                  isComplete |-> FALSE]
            ELSE SequentialPattern(sequentialUrls, MostCommonTotal(sequentialUrls))
    IN  SequentialPatternOf(Pick(screenshots,
                                 [i \in Indices(screenshots) |->
                                     HasSequence(screenshots[i])]))

\* detectSlicePattern
detectSlicePattern(screenshots) ==
    LET SlicePattern(sliceNumbers, expectedCount) ==
            [found |-> sliceNumbers # {},
             expectedCount |-> expectedCount,
             isComplete |-> Cardinality(sliceNumbers) = expectedCount]
        SlicePatternOf(sliceNumbers) ==
            SlicePattern(sliceNumbers,
                         IF sliceNumbers # {} THEN SetMax(sliceNumbers) + 1 ELSE 0)
    IN  SlicePatternOf({screenshots[i].slice :
                          i \in {j \in Indices(screenshots) : HasSlice(screenshots[j])}})

\* detectQualityTiers: redundancy = (length - maxCount) / length
detectQualityTiers(screenshots) ==
    LET CountOfTotal(t) ==
            Cardinality({i \in Indices(screenshots) : Total(screenshots[i]) = t})
        QualityTiers(totals) ==
            [found |-> Cardinality(totals) > 1,
             uniqueQualities |-> Cardinality(totals),
             maxCount |-> IF Cardinality(totals) > 1
                          THEN SetMax({CountOfTotal(t) : t \in totals})
                          ELSE Len(screenshots)]
    IN  QualityTiers({Total(screenshots[i]) :
                        i \in {j \in Indices(screenshots) : Total(screenshots[j]) > 0}})

\* assessQuality
assessQuality(screenshots) ==
    LET OverallQuality(highQualityCount, lowQualityCount) ==
            [overallQuality |-> IF highQualityCount > lowQualityCount THEN "high"
                                ELSE IF lowQualityCount > highQualityCount THEN "low"
                                ELSE "mixed"]
    IN  OverallQuality(
            Cardinality({i \in Indices(screenshots) : Total(screenshots[i]) > 500000}),
            Cardinality({i \in Indices(screenshots) :
                           Total(screenshots[i]) > 0 /\ Total(screenshots[i]) < 100000}))

\* detectRedundancy: redundancyRatio = (length - uniqueBaseNames) / length
detectRedundancy(screenshots) ==
    LET Redundancy(totalCount, uniqueBaseNames) ==
            [uniqueBaseNames |-> uniqueBaseNames,
             \* redundancyRatio > 0.3
             hasSignificantRedundancy |->
                10 * (totalCount - uniqueBaseNames) > 3 * totalCount]
    IN  Redundancy(Len(screenshots),
                   Cardinality({ExtractBaseName(screenshots[i]) :
                                  i \in Indices(screenshots)}))

\* getPlatformLimits
getPlatformLimits(platform, sequential) ==
    LET baseLimits ==
            CASE platform = "iPad" -> [reasonable |-> 10, optimal |-> 8]
              [] platform = "AppleTV" -> [reasonable |-> 6, optimal |-> 4]
              [] OTHER -> [reasonable |-> 8, optimal |-> 6]
        AdjustLimits(limits) ==
            IF sequential.found /\ sequential.expectedCount > 0
               /\ sequential.expectedCount <= limits.reasonable
            THEN [reasonable |-> sequential.expectedCount,
                  optimal |-> sequential.expectedCount]
            ELSE limits
    IN  AdjustLimits(baseLimits)

\* Math.ceil(n / d) for n >= 0, d > 0
CeilDiv(n, d) == (n + d - 1) \div d

\* variant: the redundancy of the collection is looked at first
determineStrategyRedundancyFirst(screenshots, platform) ==
    LET ChooseStrategy(sequential, slice, tiers, quality, redundancy, limits, totalCount) ==
            IF redundancy.hasSignificantRedundancy
            THEN [strategy |-> "deduplicate_aggressive", confidence |-> Times(Scale, 8),
                  maxScreenshots |-> Max(3, CeilDiv(8 * redundancy.uniqueBaseNames, 10))]
            ELSE IF sequential.found /\ sequential.isComplete
            THEN [strategy |-> "respect_sequence", confidence |-> Times(Scale, 9),
                  maxScreenshots |-> sequential.expectedCount]
            ELSE IF slice.found /\ slice.isComplete
            THEN [strategy |-> "respect_slices", confidence |-> Times(Scale, 9),
                  maxScreenshots |-> slice.expectedCount]
            ELSE IF tiers.found /\ quality.overallQuality = "mixed"
            THEN [strategy |-> "quality_filter", confidence |-> Times(Scale, 7),
                  maxScreenshots |-> Max(4, tiers.maxCount)]
            ELSE IF totalCount > limits.reasonable
            THEN [strategy |-> "platform_optimize", confidence |-> Times(Scale, 6),
                  maxScreenshots |-> limits.optimal]
            ELSE [strategy |-> "none", confidence |-> Scale,
                  maxScreenshots |-> totalCount]
        ChooseWithLimits(sequential, slice, tiers, quality, redundancy) ==
            ChooseStrategy(sequential, slice, tiers, quality, redundancy,
                           getPlatformLimits(platform, sequential), Len(screenshots))
    IN  ChooseWithLimits(detectSequentialPattern(screenshots),
                         detectSlicePattern(screenshots),
                         detectQualityTiers(screenshots),
                         assessQuality(screenshots),
                         detectRedundancy(screenshots))

\* determineFilteringStrategy
determineFilteringStrategy(screenshots, platform) ==
    LET \* the decisions, given the detections
        ChooseStrategy(sequential, slice, tiers, quality, redundancy, limits, totalCount) ==
            IF sequential.found /\ sequential.isComplete
            THEN [strategy |-> "respect_sequence", confidence |-> Times(Scale, 9),
                  maxScreenshots |-> sequential.expectedCount]
            ELSE IF slice.found /\ slice.isComplete
            THEN [strategy |-> "respect_slices", confidence |-> Times(Scale, 9),
                  maxScreenshots |-> slice.expectedCount]
            ELSE IF redundancy.hasSignificantRedundancy
            THEN [strategy |-> "deduplicate_aggressive", confidence |-> Times(Scale, 8),
                  \* Math.max(3, Math.ceil(uniqueBaseNames * 0.8))
                  maxScreenshots |-> Max(3, CeilDiv(8 * redundancy.uniqueBaseNames, 10))]
            ELSE IF tiers.found /\ quality.overallQuality = "mixed"
            THEN [strategy |-> "quality_filter", confidence |-> Times(Scale, 7),
                  \* Math.max(4, Math.ceil(totalCount * (1 - redundancy))),
                  \* the product being maxCount, of which there are fewer
                  \* than four
                  maxScreenshots |-> Max(4, tiers.maxCount)]
            ELSE IF totalCount > limits.reasonable
            THEN [strategy |-> "platform_optimize", confidence |-> Times(Scale, 6),
                  maxScreenshots |-> limits.optimal]
            ELSE [strategy |-> "none", confidence |-> Scale,
                  maxScreenshots |-> totalCount]
        ChooseWithLimits(sequential, slice, tiers, quality, redundancy) ==
            ChooseStrategy(sequential, slice, tiers, quality, redundancy,
                           getPlatformLimits(platform, sequential), Len(screenshots))
    IN  ChooseWithLimits(detectSequentialPattern(screenshots),
                         detectSlicePattern(screenshots),
                         detectQualityTiers(screenshots),
                         assessQuality(screenshots),
                         detectRedundancy(screenshots))

\* analyzeCollection
analyzeCollection(screenshots, platform) ==
    LET \* {...strategy, needsFiltering: strategy.strategy !== 'none'}
        WithNeedsFiltering(s) ==
            [needsFiltering |-> s.strategy # "none", strategy |-> s.strategy,
             confidence |-> s.confidence, maxScreenshots |-> s.maxScreenshots]
    IN  IF Len(screenshots) = 0
        THEN [needsFiltering |-> FALSE, strategy |-> "none", confidence |-> Scale,
              maxScreenshots |-> 0]
        ELSE WithNeedsFiltering(determineFilteringStrategy(screenshots, platform))

(***************************************************************************)
(* SmartFilter.  A quality score of the code is kept times ScoreUnit.      *)
(***************************************************************************)
ScoreUnit == 100 * 1000

calculateQualityScore(url) ==
    (IF Total(url) > 0 THEN Min(Total(url), 10 * ScoreUnit) ELSE 0)
    + (IF url.ver = "_new" THEN 5 * ScoreUnit ELSE 0)
    - (IF url.ver \in {"_orig", "_retry"} THEN 3 * ScoreUnit ELSE 0)
    - (IF url.ver = "_thumb" THEN 5 * ScoreUnit ELSE 0)
    + (IF url.ext = "jpg" THEN ScoreUnit ELSE 0)
    + (IF url.ext = "png" /\ Total(url) < 200000 THEN 2 * ScoreUnit ELSE 0)

\* variant: a URL replaces one of the same score
isBetterOrEqualUrl(urlA, urlB) ==
    calculateQualityScore(urlA) >= calculateQualityScore(urlB)

isBetterUrl(urlA, urlB) == calculateQualityScore(urlA) > calculateQualityScore(urlB)

\* the Map of respectSequentialPattern / respectSlicePattern after its loop:
\* the URL kept under number n, candidates[i] saying which URLs are set
Kept(screenshots, candidates) ==
    LET RECURSIVE KeptFrom(_, _)
        KeptFrom(i, existing) ==
            IF i > Len(screenshots) THEN existing
            ELSE KeptFrom(i + 1,
                          IF candidates[i]
                             /\ (existing = <<>>
                                 \/ isBetterUrl(screenshots[i], existing[1]))
                          THEN <<screenshots[i]>> ELSE existing)
    IN  KeptFrom(1, <<>>)

RECURSIVE ConcatFrom(_, _, _)
ConcatFrom(f, i, last) ==
    IF i > last THEN <<>> ELSE f[i] \o ConcatFrom(f, i + 1, last)

\* variant: every URL of the sequence is kept, in the order of the input
KeepSequenceMembers(screenshots, expectedCount) ==
    Pick(screenshots, [i \in Indices(screenshots) |->
                          HasSequence(screenshots[i])
                          /\ screenshots[i].of = expectedCount])

respectSequentialPattern(screenshots, expectedCount) ==
    ConcatFrom([n \in 1..expectedCount |->
                   Kept(screenshots,
                        [i \in Indices(screenshots) |->
                            /\ HasSequence(screenshots[i])
                            /\ screenshots[i].of = expectedCount
                            /\ screenshots[i].seq = n])],
               1, expectedCount)

respectSlicePattern(screenshots, expectedCount) ==
    ConcatFrom([n \in 0..(expectedCount - 1) |->
                   Kept(screenshots,
                        [i \in Indices(screenshots) |->
                            HasSlice(screenshots[i]) /\ screenshots[i].slice = n])],
               0, expectedCount - 1)

\* urls.sort((a, b) => score(b) - score(a))
SortByScore(urls) ==
    SortBy(urls, [i \in Indices(urls) |-> [j \in Indices(urls) |->
                    calculateQualityScore(urls[j]) > calculateQualityScore(urls[i])]])

\* selectBestFromGroup returns the group itself, sorted: an array
selectBestFromGroup(urls) == IF Len(urls) = 1 THEN urls ELSE SortByScore(urls)

\* aggressiveDeduplicate: the groups in the order of their average score,
\* best first, and of each of the first targetCount groups what
\* selectBestFromGroup returns, pushed as one element
aggressiveDeduplicate(screenshots, targetCount) ==
    LET RECURSIVE SumScores(_, _)
        SumScores(urls, i) ==
            IF i > Len(urls) THEN 0
            ELSE calculateQualityScore(urls[i]) + SumScores(urls, i + 1)
        \* groups.sort by assessGroupQuality(b) - assessGroupQuality(a), the
        \* average score of a group
        SortGroups(groups) ==
            SortBy(groups, [i \in Indices(groups) |-> [j \in Indices(groups) |->
                      SumScores(groups[j], 1) * Len(groups[i])
                        > SumScores(groups[i], 1) * Len(groups[j])]])
        PushBestOfGroups(sortedGroups) ==
            [g \in 1..Min(targetCount, Len(sortedGroups)) |->
                ArrElem(selectBestFromGroup(sortedGroups[g]))]
    IN  PushBestOfGroups(
            SortGroups(GroupsOf(screenshots,
                                [i \in Indices(screenshots) |->
                                    ExtractBaseName(screenshots[i])])))

filterByQuality(screenshots, targetCount) == Take(SortByScore(screenshots), targetCount)

\* Math.round(n / d) for n >= 0, d > 0
RoundDiv(n, d) == (2 * n + d) \div (2 * d)

\* calculateSimilarityKey
calculateSimilarityKey(url) ==
    [aspectRatio |-> IF url.w > 0 THEN RoundDiv(10 * url.h, url.w) ELSE 0,
     hasSequence |-> HasSequence(url),
     hasSlice |-> HasSlice(url)]

selectDiverseSet(screenshots, targetCount) ==
    LET \* Math.min(groupTarget, remaining, urls.length)
        TakeCount(urls, remaining) ==
            Min(Min(Max(1, RoundDiv(targetCount * Len(urls), Len(screenshots))),
                    remaining),
                Len(urls))
        \* the forEach over the groups from g on
        RECURSIVE TakeFromGroups(_, _, _)
        TakeFromGroups(groups, g, remaining) ==
            IF g > Len(groups) THEN <<>>
            ELSE IF remaining <= 0
            THEN TakeFromGroups(groups, g + 1, remaining)
            ELSE Take(selectBestFromGroup(groups[g]),
                      TakeCount(groups[g], remaining))
                 \o TakeFromGroups(groups, g + 1,
                                   remaining - TakeCount(groups[g], remaining))
    IN  IF Len(screenshots) <= targetCount THEN screenshots
        ELSE Take(TakeFromGroups(
                     GroupsOf(screenshots,
                              [i \in Indices(screenshots) |->
                                  calculateSimilarityKey(screenshots[i])]),
                     1, targetCount),
                  targetCount)

platformOptimize(screenshots, targetCount) == selectDiverseSet(screenshots, targetCount)

applyStrategy(screenshots, analysis) ==
    CASE analysis.strategy = "respect_sequence" ->
           respectSequentialPattern(screenshots, analysis.maxScreenshots)
      [] analysis.strategy = "respect_slices" ->
           respectSlicePattern(screenshots, analysis.maxScreenshots)
      [] analysis.strategy = "deduplicate_aggressive" ->
           aggressiveDeduplicate(screenshots, analysis.maxScreenshots)
      [] analysis.strategy = "quality_filter" ->
           filterByQuality(screenshots, analysis.maxScreenshots)
      [] analysis.strategy = "platform_optimize" ->
           platformOptimize(screenshots, analysis.maxScreenshots)
      [] OTHER -> screenshots

\* variant: the best-scored URLs come first whatever the analyzer answers
FilterByScore(screenshots, platform) == SortByScore(screenshots)

\* SmartFilter.filter
Filter(screenshots, platform) ==
    LET FilterWith(analysis) ==
            IF ~analysis.needsFiltering THEN screenshots
            ELSE applyStrategy(screenshots, analysis)
    IN  IF Len(screenshots) = 0 THEN <<>>
        ELSE FilterWith(analyzeCollection(screenshots, platform))
(***************************************************************************)
(* The screenshot URLs and records of the model                            *)
(***************************************************************************)
HomeNew == Url("a", "Home", 0, 0, -1, 1242, 2688, "_new", "jpg")
HomeOrig == Url("a", "Home", 0, 0, -1, 1242, 2688, "_orig", "jpg")
MenuOld == Url("a", "Menu", 0, 0, -1, 0, 0, "_old", "png")
MenuPlain == Url("a", "Menu", 0, 0, -1, 392, 696, "", "png")

Record(id, phone, tablet, tv) ==
    [id |-> id, screenshots |-> phone, ipadScreenshots |-> tablet,
     appletvScreenshots |-> tv]

HashHome == Url("0123456789abcdef", "Home", 0, 0, -1, 392, 696, "", "png")
HashHomeTwin == Url("fedcba9876543210", "Home", 0, 0, -1, 392, 696, "", "png")

\* the primary records
PrimaryRecords ==
    { Record("1", <<>>, <<>>, <<>>),
      [id |-> "1"],
      Record("1", <<HomeNew>>, <<>>, <<>>),
      Record("1", <<>>, <<MenuPlain>>, <<>>),
      Record("1", <<>>, <<>>, <<HomeNew>>),
      Record("1", <<MenuOld>>, <<>>, <<>>),
      Record("1", <<NumElem>>, <<>>, <<>>),
      Record("1", <<HomeNew, HomeOrig, NullElem>>, <<>>, <<>>),
      Record("1", <<HashHome, HashHomeTwin>>, <<>>, <<>>) }

\* the messages of what the conversion of appId to a string can raise
ErrorMessages == {"boom", "Cannot convert object to primitive value"}

\* what extractScreenshotsFromWeb does: it raises, from the template literal
\* of its first line, or returns three arrays of URL strings, empty when its
\* try block caught anything
WebOutcomes ==
    [threw : {TRUE}, message : ErrorMessages]
    \cup { [threw |-> FALSE, screenshots |-> <<>>, ipadScreenshots |-> <<>>,
            appletvScreenshots |-> <<>>],
           [threw |-> FALSE, screenshots |-> <<HomeNew>>, ipadScreenshots |-> <<>>,
            appletvScreenshots |-> <<>>],
           [threw |-> FALSE, screenshots |-> <<MenuOld>>, ipadScreenshots |-> <<>>,
            appletvScreenshots |-> <<>>],
           [threw |-> FALSE, screenshots |-> <<>>, ipadScreenshots |-> <<>>,
            appletvScreenshots |-> <<MenuPlain>>] }

\* every collection a primary record or a scrape hands to processScreenshots
Collections ==
    {Get(r, f) : r \in PrimaryRecords \cup {w \in WebOutcomes : ~w.threw},
                 f \in {"screenshots", "ipadScreenshots", "appletvScreenshots"}}

(***************************************************************************)
(* ScreenshotChain                                                         *)
(***************************************************************************)
PlatformFields == {"screenshots", "ipadScreenshots", "appletvScreenshots"}

\* {...data, ...updates}
With(data, updates) ==
    [f \in DOMAIN data \cup DOMAIN updates |->
        IF f \in DOMAIN updates THEN updates[f] ELSE data[f]]

\* processScreenshots raises what the deduplicator raises
ProcessThrows(data) ==
    \E f \in PlatformFields : DeduplicateThrows(RemoveExactDuplicates(Get(data, f)))

\* one collection of processScreenshots: the exact duplicates removed, then
\* deduplicate, then filter, each on the value the step before returned
ProcessCollection(urls, platform) ==
    CHOOSE filtered \in
       {Filter(deduplicated, platform) :
           deduplicated \in {Deduplicate(unique, platform) :
                                unique \in {RemoveExactDuplicates(urls)}}} : TRUE

\* ProcessCollection on every collection and platform of the model, for the
\* collections the deduplicator does not raise on
ProcessedCollections ==
    {<<c, IF DeduplicateThrows(RemoveExactDuplicates(c[1])) THEN <<>>
          ELSE ProcessCollection(c[1], c[2])>> :
        c \in Collections \X {"iPhone", "iPad", "AppleTV"}}

\* processScreenshots, when it does not raise
ProcessScreenshots(data) ==
    LET \* the platform name passed with each collection
        PlatformOf(field) ==
            CASE field = "screenshots" -> "iPhone"
              [] field = "ipadScreenshots" -> "iPad"
              [] field = "appletvScreenshots" -> "AppleTV"
        Processed(urls, platform) ==
            (CHOOSE p \in ProcessedCollections : p[1] = <<urls, platform>>)[2]
    IN  With(data, [f \in PlatformFields |-> Processed(Get(data, f), PlatformOf(f))])

\* the values of lastError
Null == [type |-> "null"]
Undefined == [type |-> "undefined"]
ErrorOf(message) == [type |-> "Error", message |-> message]

\* lastError?.message || 'Unknown error'
LastErrorMessage(e) ==
    IF e.type = "Error" /\ e.message # "" THEN e.message ELSE "Unknown error"

\* what a validateScreenshots call awaited by the chain meets: whether the app
\* page answers 200, and how many of the sampled URLs do
ValidatorWorlds(data) ==
    LET all == PhoneAndTablet(data)
        reachable == Cardinality({i \in 1..SampleSize(data) : IsString(all[i])})
    IN [pageExists : BOOLEAN, accessible : 0..reachable]

NoValidation == [pageExists |-> TRUE, accessible |-> 0]

\* validateScreenshots as one step: the result and the cache it leaves
ValidateScreenshots(cache, t, data, appId, country, world) ==
    LET \* this.validationCache.set(...); return validation
        Stored(validation) ==
            [result |-> validation,
             cache |-> CacheSet(cache, CacheKey(appId, country), t, validation)]
    IN  IF CacheHit(cache[CacheKey(appId, country)], t)
        THEN [result |-> cache[CacheKey(appId, country)].result, cache |-> cache]
        ELSE IF ~world.pageExists
        THEN Stored(AppNotFoundResult)
        ELSE IF AnalyzeThrows(data)
        THEN [result |-> ValidationFailedResult, cache |-> cache]
        ELSE Stored(PerformValidation(data, world.accessible))

\* hasIphone || hasIpad
HasPrimaryScreenshots(data) ==
    Len(Get(data, "screenshots")) > 0 \/ Len(Get(data, "ipadScreenshots")) > 0

\* variant: the validator is asked whatever skipValidation says
TryItunesApiValidating(data, appId, country, skipValidation, cache, t, world) ==
    LET AfterApiValidation(v) ==
            IF ~v.result.isValid
            THEN [success |-> FALSE, reason |-> "validation_failed", cache |-> v.cache]
            ELSE IF ProcessThrows(data)
            THEN [success |-> FALSE, reason |-> "api_processing_error",
                  cache |-> v.cache]
            ELSE [success |-> TRUE, data |-> ProcessScreenshots(data),
                  cache |-> v.cache]
    IN  IF ~HasPrimaryScreenshots(data)
        THEN [success |-> FALSE, reason |-> "no_screenshots_in_api", cache |-> cache]
        ELSE AfterApiValidation(
                ValidateScreenshots(cache, t, data, appId, country, world))

\* tryItunesApi
TryItunesApi(data, appId, country, skipValidation, cache, t, world) ==
    LET \* from the answer of the validator on
        AfterApiValidation(v) ==
            IF ~v.result.isValid
            THEN [success |-> FALSE, reason |-> "validation_failed", cache |-> v.cache]
            ELSE IF ProcessThrows(data)
            THEN [success |-> FALSE, reason |-> "api_processing_error",
                  cache |-> v.cache]
            ELSE [success |-> TRUE, data |-> ProcessScreenshots(data),
                  cache |-> v.cache]
        \* the validator is not asked
        Skipped == [result |-> [isValid |-> TRUE], cache |-> cache]
    IN  IF ~HasPrimaryScreenshots(data)
        THEN [success |-> FALSE, reason |-> "no_screenshots_in_api", cache |-> cache]
        ELSE AfterApiValidation(
                IF skipValidation THEN Skipped
                ELSE ValidateScreenshots(cache, t, data, appId, country, world))

\* variant: only a valid result is accepted
WebValidationAcceptsValidOnly(validation) == validation.isValid

\* !(!validation.isValid && validation.confidence < 0.5)
WebValidationAccepts(validation) ==
    ~(~validation.isValid /\ 2 * validation.confidence < Scale)

\* the record tryWebScraping processes
WebData(data, web) ==
    With(data, [screenshots |-> web.screenshots,
                ipadScreenshots |-> web.ipadScreenshots,
                appletvScreenshots |-> web.appletvScreenshots])

\* tryWebScraping, given what extractScreenshotsFromWeb did
TryWebScraping(data, appId, country, skipValidation, web, cache, t, world) ==
    LET \* from the answer of the validator on
        AfterWebValidation(processed, v, accepted) ==
            [success |-> accepted,
             reason |-> IF accepted THEN "" ELSE "web_validation_failed",
             data |-> processed, error |-> Undefined, cache |-> v.cache,
             candidates |-> TRUE, validated |-> TRUE,
             confidence |-> v.result.confidence]
        AfterValidation(processed, v) ==
            AfterWebValidation(processed, v, WebValidationAccepts(v.result))
        \* from the processed record on
        AfterProcessing(processed) ==
            IF skipValidation
            THEN [success |-> TRUE, data |-> processed, error |-> Undefined,
                  reason |-> "", cache |-> cache,
                  candidates |-> TRUE, validated |-> FALSE]
            ELSE AfterValidation(
                    processed,
                    ValidateScreenshots(cache, t, processed, appId, country, world))
    IN  IF web.threw
        THEN [success |-> FALSE, reason |-> "web_scraping_error",
              error |-> ErrorOf(web.message), cache |-> cache,
              candidates |-> FALSE, validated |-> FALSE]
        ELSE IF Len(web.screenshots) + Len(web.ipadScreenshots)
                  + Len(web.appletvScreenshots) = 0
        THEN [success |-> FALSE, reason |-> "no_screenshots_extracted",
              error |-> Undefined, cache |-> cache,
              candidates |-> FALSE, validated |-> FALSE]
        ELSE IF ProcessThrows(WebData(data, web))
        THEN [success |-> FALSE, reason |-> "web_scraping_error",
              error |-> ErrorOf("url.match is not a function"), cache |-> cache,
              candidates |-> TRUE, validated |-> FALSE]
        ELSE AfterProcessing(ProcessScreenshots(WebData(data, web)))

WarningText == "Screenshot extraction failed, using available data"

\* variant: the last error is left out
FallbackDataWithoutLastError(data, e) ==
    With(data,
         [f \in PlatformFields \cup {"_screenshotExtractionWarning"} |->
             CASE f = "_screenshotExtractionWarning" -> WarningText
               [] OTHER -> Get(data, f)])

\* the fallbackData of createFallbackResult
FallbackData(data, e) ==
    With(data,
         [f \in PlatformFields \cup {"_screenshotExtractionWarning", "_lastError"} |->
             CASE f = "_screenshotExtractionWarning" -> WarningText
               [] f = "_lastError" -> LastErrorMessage(e)
               [] OTHER -> Get(data, f)])

\* variant: processScreenshots outside of any try
ProcessUnguarded(fallbackData) ==
    IF ProcessThrows(fallbackData)
    THEN [raised |-> TRUE]
    ELSE [raised |-> FALSE, data |-> ProcessScreenshots(fallbackData)]

\* try { return await this.processScreenshots(fallbackData) }
\* catch { return fallbackData }
ProcessOrKeep(fallbackData) ==
    IF ProcessThrows(fallbackData)
    THEN [raised |-> FALSE, data |-> fallbackData]
    ELSE [raised |-> FALSE, data |-> ProcessScreenshots(fallbackData)]

\* createFallbackResult
CreateFallbackResult(data, e) == ProcessOrKeep(FallbackData(data, e))

\* variant: the wait doubles from 2000 ms on
BackoffFromAttempt(k) == 1000 * Pow2(k)

\* 1000 * Math.pow(2, attempt - 1)
Backoff(k) == 1000 * Pow2(k - 1)

\* variant: the loop runs once more
LoopRunsInclusive(k, maxRetries) == k <= maxRetries + 1

\* attempt <= maxRetries
LoopRuns(k, maxRetries) == k <= maxRetries
(***************************************************************************)
(* Concurrent callers of ScreenshotValidator.validateScreenshots.  A call  *)
(* is suspended at each await: the HEAD of the app page and the HEAD of    *)
(* each sampled screenshot URL.                                            *)
(***************************************************************************)
Callers == {"c1", "c2"}

MaxTicks == 2
TickMs == maxCacheAge \div 2

AppIds == {"A"}
Countries == {"us", "fr"}
Keys == AppIds \X Countries

\* the records handed to validateScreenshots
ValInputs ==
    { Record("1", <<HomeNew>>, <<>>, <<>>),
      Record("1", <<>>, <<>>, <<>>),
      Record("1", <<ArrElem(<<HomeNew, HomeOrig>>)>>, <<>>, <<>>) }

IdleCall == [pc |-> "idle"]
NoCall == [none |-> TRUE]

\* axios.head(url): a request goes out for a string; anything else fails
\* before a request is made
HeadOutcomes(url) == IF IsString(url) THEN BOOLEAN ELSE {FALSE}

InFlight(p) == vcall[p].pc \in {"exists", "heads"}

\* the call of caller p returns `result`; a fresh validation that did not
\* raise has stored it first.  notFound: _checkAppPageExists answered false
Complete(p, result, threw, heads, notFound) ==
    LET c == vcall[p]
        key == CacheKey(c.appId, c.country)
        k == <<c.appId, c.country>>
    IN /\ validationCache' =
            IF threw THEN validationCache
            ELSE CacheSet(validationCache, key, now, result)
       /\ lastStore' =
            IF threw THEN lastStore
            ELSE [lastStore EXCEPT ![k] = [timestamp |-> now, result |-> result]]
       /\ lastReturn' =
            [key |-> k, startedAt |-> c.startedAt, at |-> now, result |-> result,
             hit |-> FALSE, threw |-> threw, heads |-> heads,
             notFound |-> notFound,
             expired |-> c.expired, overlapped |-> c.overlapped]
       /\ vcall' = [vcall EXCEPT ![p] = IdleCall]

\* validateScreenshots up to its first await: the cache lookup
ValidateStart(p) ==
    /\ vcall[p].pc = "idle"
    /\ \E appId \in AppIds, country \in Countries, data \in ValInputs :
         LET key == CacheKey(appId, country)
             cached == validationCache[key]
         IN IF CacheHit(cached, now)
            THEN /\ lastReturn' =
                       [key |-> <<appId, country>>, startedAt |-> now, at |-> now,
                        result |-> cached.result, hit |-> TRUE, threw |-> FALSE,
                        notFound |-> FALSE,
                        heads |-> 0, expired |-> FALSE, overlapped |-> FALSE]
                 /\ UNCHANGED <<vcall, validationCache, lastStore>>
            ELSE /\ vcall' = [q \in Callers |->
                       IF q = p
                       THEN [pc |-> "exists", appId |-> appId, country |-> country,
                             data |-> data, startedAt |-> now,
                             heads |-> 0, sampled |-> 0, accessible |-> 0,
                             expired |-> cached # NoEntry,
                             overlapped |-> \E r \in Callers \ {p} : InFlight(r)]
                       ELSE IF InFlight(q)
                       THEN [vcall[q] EXCEPT !.overlapped = TRUE]
                       ELSE vcall[q]]
                 /\ UNCHANGED <<validationCache, lastStore, lastReturn>>
    /\ UNCHANGED <<now, chainVars, pipeVars>>

\* _checkAppPageExists answers, and _performValidation runs on to its next
\* await
CheckAppPageExists(p) ==
    /\ vcall[p].pc = "exists"
    /\ \E pageExists \in BOOLEAN :
         LET c == vcall[p] IN
         IF ~pageExists
         THEN Complete(p, AppNotFoundResult, FALSE, c.heads + 1, TRUE)
         ELSE IF AnalyzeThrows(c.data)
         THEN Complete(p, ValidationFailedResult, TRUE, c.heads + 1, FALSE)
         ELSE IF Len(PhoneAndTablet(c.data)) = 0
         THEN Complete(p, PerformValidation(c.data, 0), FALSE, c.heads + 1, FALSE)
         ELSE /\ vcall' = [vcall EXCEPT ![p].pc = "heads", ![p].heads = c.heads + 1]
              /\ UNCHANGED <<validationCache, lastStore, lastReturn>>
    /\ UNCHANGED <<now, chainVars, pipeVars>>

\* one axios.head of _validateScreenshotUrls answers
HeadScreenshot(p) ==
    /\ vcall[p].pc = "heads"
    /\ LET c == vcall[p]
           url == PhoneAndTablet(c.data)[c.sampled + 1]
       IN \E ok \in HeadOutcomes(url) :
            LET acc == c.accessible + (IF ok THEN 1 ELSE 0)
                heads == c.heads + (IF IsString(url) THEN 1 ELSE 0)
            IN IF c.sampled + 1 = SampleSize(c.data)
               THEN Complete(p, PerformValidation(c.data, acc), FALSE, heads, FALSE)
               ELSE /\ vcall' = [vcall EXCEPT ![p].sampled = c.sampled + 1,
                                               ![p].accessible = acc,
                                               ![p].heads = heads]
                    /\ UNCHANGED <<validationCache, lastStore, lastReturn>>
    /\ UNCHANGED <<now, chainVars, pipeVars>>

\* clearCache
ClearCache ==
    /\ validationCache' = [k \in Keys |-> NoEntry]
    /\ lastStore' = [k \in Keys |-> NoEntry]
    /\ UNCHANGED <<now, vcall, lastReturn, chainVars, pipeVars>>

\* time passes
Tick ==
    /\ now + TickMs <= MaxTicks * TickMs
    /\ now' = now + TickMs
    /\ UNCHANGED <<validationCache, vcall, lastStore, lastReturn, chainVars, pipeVars>>

\* the pipeline objects before any call
PipeIdle ==
    /\ calls = 0
    /\ firstCall = NoCall
    /\ lastCall = NoCall
    /\ interleaved = FALSE

ChainIdle ==
    /\ pc = "Idle"
    /\ appData = Record("1", <<>>, <<>>, <<>>)
    /\ options = [forceRefresh |-> FALSE, skipValidation |-> FALSE, maxRetries |-> 0]
    /\ attempt = 0
    /\ lastError = Null
    /\ outcome = [via |-> "none"]
    /\ trail = <<>>

ValInit ==
    /\ now = 0
    /\ validationCache = [k \in Keys |-> NoEntry]
    /\ vcall = [p \in Callers |-> IdleCall]
    /\ lastStore = [k \in Keys |-> NoEntry]
    /\ lastReturn = NoCall
    /\ ChainIdle
    /\ PipeIdle

ValNext ==
    \/ \E p \in Callers : ValidateStart(p)
    \/ \E p \in Callers : CheckAppPageExists(p)
    \/ \E p \in Callers : HeadScreenshot(p)
    \/ ClearCache
    \/ Tick

ValidatorSpec == ValInit /\ [][ValNext]_vars

(***************************************************************************)
(* One call of ScreenshotChain.extract.  A step is what runs between two   *)
(* of its awaits on the outside world, the validator being answered        *)
(* within the step.                                                        *)
(***************************************************************************)
MaxRetries == 3

ChainAppId == "A"
ChainCountry == "us"

Options ==
    [forceRefresh : BOOLEAN, skipValidation : BOOLEAN, maxRetries : -1..MaxRetries]

\* the worlds in which tryWebScraping gets to call the validator
WebWorlds(web) ==
    IF web.threw \/ options.skipValidation
       \/ Len(web.screenshots) + Len(web.ipadScreenshots)
            + Len(web.appletvScreenshots) = 0
       \/ ProcessThrows(WebData(appData, web))
    THEN {NoValidation}
    ELSE ValidatorWorlds(ProcessScreenshots(WebData(appData, web)))

Return(via, result) ==
    /\ outcome' = With(result, [via |-> via])
    /\ pc' = "Done"

\* variant: the first pass of the loop is made before its test
EnterLoopUntested ==
    /\ lastError' = Null
    /\ attempt' = 1
    /\ pc' = "TryScrape"
    /\ UNCHANGED <<outcome, trail>>

\* lastError = null and the first test of the loop
EnterLoop ==
    /\ lastError' = Null
    /\ attempt' = 1
    /\ pc' = IF LoopRuns(1, options.maxRetries) THEN "TryScrape" ELSE "Fallback"
    /\ UNCHANGED <<outcome, trail>>

\* if (!forceRefresh) tryItunesApi
TryPrimary ==
    LET \* extract from the answer of tryItunesApi on
        AfterItunesApi(apiResult) ==
            /\ validationCache' = apiResult.cache
            /\ IF apiResult.success
               THEN /\ Return("TryPrimary",
                              [raised |-> FALSE, data |-> apiResult.data])
                    /\ UNCHANGED <<attempt, lastError, trail>>
               ELSE EnterLoop
    IN  /\ pc = "TryPrimary"
        /\ IF options.forceRefresh
           THEN EnterLoop /\ UNCHANGED validationCache
           ELSE \E world \in (IF options.skipValidation
                                 \/ ~HasPrimaryScreenshots(appData)
                              THEN {NoValidation} ELSE ValidatorWorlds(appData)) :
                  AfterItunesApi(TryItunesApi(appData, ChainAppId, ChainCountry,
                                              options.skipValidation,
                                              validationCache, now, world))
        /\ UNCHANGED <<now, vcall, lastStore, lastReturn, appData, options, pipeVars>>

\* one pass of the loop up to its wait: tryWebScraping
TryScrape ==
    LET \* what the history keeps of an attempt
        AttemptEntry(webResult) ==
            [op |-> "attempt", k |-> attempt,
             success |-> webResult.success,
             candidates |-> webResult.candidates,
             validated |-> webResult.validated,
             confidence |-> IF webResult.validated THEN webResult.confidence ELSE -1,
             error |-> webResult.error]
        \* from the answer of tryWebScraping to the wait
        AfterWebScraping(webResult) ==
            /\ validationCache' = webResult.cache
            /\ trail' = Append(trail, AttemptEntry(webResult))
            /\ IF webResult.success
               THEN /\ Return("TryScrape",
                              [raised |-> FALSE, data |-> webResult.data])
                    /\ UNCHANGED <<attempt, lastError>>
               ELSE /\ lastError' = webResult.error
                    /\ UNCHANGED outcome
                    /\ IF attempt < options.maxRetries
                       THEN pc' = "Delay" /\ UNCHANGED attempt
                       ELSE /\ attempt' = attempt + 1
                            /\ pc' = IF LoopRuns(attempt + 1, options.maxRetries)
                                     THEN "TryScrape" ELSE "Fallback"
    IN  /\ pc = "TryScrape"
        /\ \E web \in WebOutcomes :
             \E world \in WebWorlds(web) :
               AfterWebScraping(TryWebScraping(appData, ChainAppId, ChainCountry,
                                               options.skipValidation, web,
                                               validationCache, now, world))
        /\ UNCHANGED <<now, vcall, lastStore, lastReturn, appData, options, pipeVars>>

\* await this.delay(...), then attempt++ and the test of the loop
Delay ==
    /\ pc = "Delay"
    /\ now' = now + Backoff(attempt)
    /\ trail' = Append(trail, [op |-> "wait", k |-> attempt, at |-> now,
                               ms |-> Backoff(attempt)])
    /\ attempt' = attempt + 1
    /\ pc' = IF LoopRuns(attempt + 1, options.maxRetries) THEN "TryScrape" ELSE "Fallback"
    /\ UNCHANGED <<validationCache, vcall, lastStore, lastReturn, appData, options,
                   lastError, outcome, pipeVars>>

\* createFallbackResult
Fallback ==
    /\ pc = "Fallback"
    /\ Return("Fallback", CreateFallbackResult(appData, lastError))
    /\ UNCHANGED <<now, validationCache, vcall, lastStore, lastReturn, appData,
                   options, attempt, lastError, trail, pipeVars>>

Init ==
    /\ now = 0
    /\ validationCache = [k \in Keys |-> NoEntry]
    /\ vcall = [p \in Callers |-> IdleCall]
    /\ lastStore = [k \in Keys |-> NoEntry]
    /\ lastReturn = NoCall
    /\ pc = "TryPrimary"
    /\ appData \in PrimaryRecords
    /\ options \in Options
    /\ attempt = 0
    /\ lastError = Null
    /\ outcome = [via |-> "none"]
    /\ trail = <<>>
    /\ PipeIdle

Step == TryPrimary \/ TryScrape \/ Delay \/ Fallback

Next == Step \/ Tick

Spec == Init /\ [][Next]_vars

\* one call on its own: every await of the call returns, that is, a step
\* that can be taken is taken, and no time passes but that of its waits
LiveSpec == Init /\ [][Step]_vars /\ WF_vars(Step)

(***************************************************************************)
(* getScreenshotsWithFallback (lib/screenshot-fallback.js): one call       *)
(***************************************************************************)
\* appData.field && appData.field.length > 0
HasScreenshots(data, field) == Len(Get(data, field)) > 0

\* variant: what the scrape found replaces what the record supplies
TakeScraped(has, own, scraped) == scraped

\* has ? appData.field : webScreenshots.field
KeepOrFill(has, own, scraped) == IF has THEN own ELSE scraped

\* getScreenshotsWithFallback, given what extractScreenshotsFromWeb does when
\* it is called
GetScreenshotsWithFallback(data, web) ==
    IF \A f \in PlatformFields : HasScreenshots(data, f)
    THEN [scraped |-> FALSE, data |-> data]
    ELSE IF web.threw
    THEN [scraped |-> TRUE, data |-> data]
    ELSE [scraped |-> TRUE,
          data |-> With(data,
                        [f \in PlatformFields |->
                            KeepOrFill(HasScreenshots(data, f), Get(data, f), web[f])])]

\* the primary records handed to getScreenshotsWithFallback
MergeRecords ==
    {[id |-> "1"], [id |-> "1", screenshots |-> <<HomeNew>>]}
    \cup {Record("1", phone, tablet, tv) :
            phone \in {<<>>, <<HomeNew>>, <<HomeOrig, MenuOld>>},
            tablet \in {<<>>, <<MenuPlain>>},
            tv \in {<<>>, <<HashHome>>, <<HomeNew, HomeOrig>>}}

\* what extractScreenshotsFromWeb does for getScreenshotsWithFallback
MergeWebOutcomes ==
    WebOutcomes
    \cup {[threw |-> FALSE, screenshots |-> <<MenuPlain>>,
           ipadScreenshots |-> <<HomeNew, MenuOld>>,
           appletvScreenshots |-> <<HashHomeTwin>>]}

\* the call, up to its return; the history keeps the scrape it made
Merge ==
    /\ pc = "Merge"
    /\ \E web \in MergeWebOutcomes :
         LET merged == GetScreenshotsWithFallback(appData, web)
         IN /\ Return("Merge", [raised |-> FALSE, data |-> merged.data])
            /\ trail' = IF merged.scraped
                        THEN Append(trail, [op |-> "scrape", web |-> web])
                        ELSE trail
    /\ UNCHANGED <<now, validationCache, vcall, lastStore, lastReturn, appData,
                   options, attempt, lastError, pipeVars>>

MergeInit ==
    /\ now = 0
    /\ validationCache = [k \in Keys |-> NoEntry]
    /\ vcall = [p \in Callers |-> IdleCall]
    /\ lastStore = [k \in Keys |-> NoEntry]
    /\ lastReturn = NoCall
    /\ pc = "Merge"
    /\ appData \in MergeRecords
    /\ options = [forceRefresh |-> FALSE, skipValidation |-> FALSE, maxRetries |-> 0]
    /\ attempt = 0
    /\ lastError = Null
    /\ outcome = [via |-> "none"]
    /\ trail = <<>>
    /\ PipeIdle

MergeSpec == MergeInit /\ [][Merge]_vars

(***************************************************************************)
(* Calls of ContentDeduplicator.deduplicate and of SmartFilter.filter,     *)
(* which asks PatternAnalyzer.analyzeCollection, on the objects a          *)
(* ScreenshotChain holds                                                   *)
(***************************************************************************)
MaxCalls == 3

Platforms == {"iPhone", "iPad", "AppleTV"}

\* the URL sequences handed to the pipeline
UrlSequences ==
    LET Numbered(name, k, n) == Url("a", name, k, n, -1, 0, 0, "", "png")
        Sized(name, k, n, w, h, ver) == Url("a", name, k, n, -1, w, h, ver, "png")
        Slice(k) == Url("a", "Home", 0, 0, k, 0, 0, "", "png")
        Hashed(dir, name, w, h, ver) == Url(dir, name, 0, 0, -1, w, h, ver, "png")
    IN  { <<>>,
          <<HomeNew>>,
          <<HomeOrig, HomeNew>>,
          <<HomeOrig, HomeNew, MenuPlain, MenuOld>>,
          <<MenuPlain, NullElem, HomeOrig>>,
          <<HomeNew, NumElem>>,
          <<Numbered("Home", 1, 2), Numbered("Home", 2, 2)>>,
          <<Numbered("Home", 3, 3), Sized("Home", 1, 3, 392, 696, "_orig"),
            Sized("Home", 1, 3, 1242, 2688, "_new"), Numbered("Home", 2, 3)>>,
          <<Numbered("Home", 1, 2), Numbered("Menu", 1, 2), Numbered("Home", 2, 2)>>,
          <<Numbered("Home", 1, 3), Numbered("Home", 3, 3)>>,
          <<Numbered("Home", 1, 6), Numbered("Home", 2, 6), Numbered("Home", 3, 6),
            Numbered("Home", 4, 6), Numbered("Home", 5, 6)>>,
          <<Numbered("Home", 7, 9), Numbered("Home", 1, 9), Numbered("Home", 2, 9),
            Numbered("Home", 3, 9), Numbered("Home", 4, 9), Numbered("Home", 5, 9),
            Numbered("Home", 6, 9)>>,
          <<Slice(1), Slice(0)>>,
          <<Slice(2), Slice(0)>>,
          <<HashHome, HashHomeTwin>>,
          <<Hashed("0123456789abcdef", "Home", 392, 696, "_orig"),
            Hashed("0123456789abcdef", "Home", 1242, 2688, "_new"),
            Hashed("0123456789abcdef", "Menu", 392, 696, "")>>,
          <<Hashed("a", "Home", 392, 696, "_thumb"),
            Hashed("a", "Home", 392, 696, ""),
            Hashed("a", "Menu", 1242, 2688, "_retry"),
            Hashed("a", "Menu", 392, 696, "_new"),
            Hashed("a", "mastodon", 100, 100, "")>>,
          <<Hashed("a", "Home", 392, 696, ""), Hashed("a", "Menu", 1242, 2688, ""),
            Hashed("a", "mastodon", 100, 100, ""), Hashed("a", "a", 392, 696, ""),
            Hashed("a", "b", 1242, 2688, "")>> }

\* analyzeCollection and filter raise a TypeError at url.match when an
\* element is not a string
AnalyzeCollectionThrows(screenshots) ==
    \E i \in 1..Len(screenshots) : ~IsString(screenshots[i])

\* further URL sequences, handed to one call
PassSequences ==
    LET Named(name) == Url("a", name, 0, 0, -1, 0, 0, "", "png")
        Numbered(name, k, n) == Url("a", name, k, n, -1, 0, 0, "", "png")
        Sized(name, k, n, w, h, ver) == Url("a", name, k, n, -1, w, h, ver, "png")
        Slice(name, k, w, h, ver) == Url("a", name, 0, 0, k, w, h, ver, "png")
        Hashed(name) == Url("0123456789abcdef", name, 0, 0, -1, 0, 0, "", "png")
        Names == <<"Home", "Menu", "mastodon", "a", "b", "c", "d", "e", "f", "g", "h">>
    IN  UrlSequences \cup
        { <<Numbered("Home", 5, 1)>>,
          <<Numbered("Home", 2, 3), Numbered("Menu", 2, 3),
            Sized("Home", 1, 3, 392, 696, "_orig"),
            Sized("Home", 1, 3, 1242, 2688, "_new"),
            Numbered("Home", 3, 3), Numbered("Home", 4, 3), Numbered("Home", 1, 2)>>,
          <<Slice("Home", 1, 392, 696, "_orig"), Slice("Home", 1, 1242, 2688, "_new"),
            Slice("Home", 0, 0, 0, ""), Slice("Menu", 0, 0, 0, ""),
            Slice("Home", 0, 392, 696, "_thumb")>>,
          <<Sized("Home", 1, 2, 392, 696, "_orig"),
            Sized("Home", 1, 2, 1242, 2688, "_new"), Numbered("Home", 2, 2)>>,
          [i \in 1..9 |-> Named(Names[i])],
          [i \in 1..11 |-> Named(Names[i])],
          <<Numbered("Home", 1, 3), Numbered("Menu", 3, 3), Named("a"), Named("b")>>,
          [i \in 1..9 |->
              Sized(Names[i], 0, 0,
                    IF i = 1 THEN 100 ELSE IF i = 2 THEN 1242 ELSE 392,
                    IF i = 1 THEN 100 ELSE IF i = 2 THEN 2688 ELSE 696, "")],
          <<Hashed("Home"), Hashed("Menu"), Numbered("a", 1, 2), Numbered("b", 1, 2)>> }

Raised == [raised |-> TRUE]

\* what a call does on every input of the model, and on what deduplicate
\* and filter return on these
Runs ==
    LET Returned(value) == [raised |-> FALSE, value |-> value]
        \* what one call does on its input
        Run(op, screenshots, platform) ==
            CASE op = "deduplicate" ->
                   IF DeduplicateThrows(screenshots) THEN Raised
                   ELSE Returned(Deduplicate(screenshots, platform))
              [] op = "analyzeCollection" ->
                   IF AnalyzeCollectionThrows(screenshots) THEN Raised
                   ELSE Returned(analyzeCollection(screenshots, platform))
              [] op = "filter" ->
                   IF AnalyzeCollectionThrows(screenshots) THEN Raised
                   ELSE Returned(Filter(screenshots, platform))
        \* the sequences op returns on the sequences of the model
        Outputs(op) ==
            {r.value : r \in {f \in {Run(op, s[1], s[2]) :
                                        s \in PassSequences \X Platforms} :
                                 ~f.raised}}
        RunsOn(ops, sequences) ==
            {<<c, Run(c[1], c[2], c[3])>> : c \in ops \X sequences \X Platforms}
    IN  RunsOn({"deduplicate"}, PassSequences \cup Outputs("deduplicate"))
        \cup RunsOn({"analyzeCollection", "filter"},
                    PassSequences \cup Outputs("filter"))

\* variant: the objects keep the platform of the call they served last
ResultWithKeptPlatform(previous, op, screenshots, platform) ==
    (CHOOSE r \in Runs :
        r[1] = <<op, screenshots,
                 IF previous = [none |-> TRUE] THEN platform ELSE previous.platform>>)[2]

\* what an object that served `previous` last returns: the objects keep
\* nothing of a call
ResultOfCall(previous, op, screenshots, platform) ==
    (CHOOSE r \in Runs : r[1] = <<op, screenshots, platform>>)[2]

\* one call is served; the history keeps it.  A call of filter also keeps what
\* this.analyzer.analyzeCollection answered within it.
Serve(op, screenshots, platform, again) ==
    /\ calls < MaxCalls
    /\ calls' = calls + 1
    /\ lastCall' =
         [op |-> op, urls |-> screenshots, platform |-> platform, again |-> again,
          analysis |-> IF op = "filter"
                       THEN ResultOfCall(lastCall, "analyzeCollection",
                                         screenshots, platform)
                       ELSE Raised,
          out |-> ResultOfCall(lastCall, op, screenshots, platform)]
    /\ firstCall' = IF calls = 0 THEN lastCall' ELSE firstCall
    /\ interleaved' =
         (calls > 0 /\ (interleaved
                        \/ <<lastCall.op, lastCall.urls, lastCall.platform>>
                             # <<firstCall.op, firstCall.urls, firstCall.platform>>))
    /\ UNCHANGED <<valVars, chainVars>>

CallDeduplicate ==
    \E s \in UrlSequences, p \in Platforms : Serve("deduplicate", s, p, FALSE)

CallFilter ==
    \E s \in UrlSequences, p \in Platforms : Serve("filter", s, p, FALSE)

\* filter on what the filter call before returned
CallFilterAgain ==
    /\ calls > 0
    /\ lastCall.op = "filter"
    /\ ~lastCall.out.raised
    /\ Serve("filter", lastCall.out.value, lastCall.platform, TRUE)

PipelineInit ==
    /\ now = 0
    /\ validationCache = [k \in Keys |-> NoEntry]
    /\ vcall = [p \in Callers |-> IdleCall]
    /\ lastStore = [k \in Keys |-> NoEntry]
    /\ lastReturn = NoCall
    /\ ChainIdle
    /\ PipeIdle

PipelineNext ==
    \/ CallDeduplicate
    \/ CallFilter
    \/ CallFilterAgain

PipelineSpec == PipelineInit /\ [][PipelineNext]_vars

\* one call of deduplicate or of filter on a sequence
FirstPass ==
    /\ calls = 0
    /\ \E op \in {"deduplicate", "filter"}, s \in PassSequences, p \in Platforms :
         Serve(op, s, p, FALSE)

\* the same call again, on what the first returned
SecondPass ==
    /\ calls = 1
    /\ ~lastCall.out.raised
    /\ Serve(lastCall.op, lastCall.out.value, lastCall.platform, TRUE)

PassSpec == PipelineInit /\ [][FirstPass \/ SecondPass]_vars

(***************************************************************************)
(* applyConservativeValidation on the candidate URLs of a scrape.  A       *)
(* candidate is known by what the function reads of its text: the          *)
(* directory of 36 characters out of [a-f0-9-] and the file name after it, *)
(* which make its base pattern (uuid "" when the URL has no such           *)
(* directory), and the marker words the lower-cased text holds.            *)
(***************************************************************************)
ScrapedUrl(uuid, file, words) ==
    [kind |-> "str", uuid |-> uuid, file |-> file, words |-> words]

KnownContaminatedUuid == "87193092-0ef8-49c2-b620-3655c1aa9a3b"

\* what applyConservativeValidation finds in the candidates: the number of
\* base patterns, the contaminated candidates and those with two indicator
\* points or more
ConservativeChecks(screenshots) ==
    LET \* a word of the text holds the string
        Within(s, word) ==
            \/ s = word
            \/ s = "ipad" /\ word \in {"ipad_pro", "app_ipad_pro", "ipad13", "ipad12"}
            \/ s = "ipad_pro" /\ word = "app_ipad_pro"
        \* url.includes(s), urlLower.includes(s)
        Includes(url, s) == \E word \in url.words \cup {url.uuid} : Within(s, word)
        Points(url, s, n) == IF Includes(url, s) THEN n ELSE 0
        IsContaminated(url) ==
            \/ Includes(url, KnownContaminatedUuid)
            \/ \E s \in {"_snap_", "snapchat", "_hive_", "mastodon", "baseball",
                         "mlb", "snla", "sport", "league"} : Includes(url, s)
        IndicatorCount(url) ==
            (IF Includes(url, "ipad_pro") \/ Includes(url, "app_ipad_pro")
             THEN 3 ELSE 0)
            + (IF Includes(url, "ipad13") \/ Includes(url, "ipad12") THEN 3 ELSE 0)
            + Points(url, "imagegen", 2)
            + Points(url, "2048x2732", 2)
            + Points(url, "display_portrait", 2)
            + (IF Includes(url, "slice_") /\ Includes(url, "ipad") THEN 2 ELSE 0)
            + Points(url, "3gen_129", 2)
            + Points(url, "tablet", 1)
    IN  [patterns |->
            Cardinality({<<screenshots[i].uuid, screenshots[i].file>> :
                           i \in {j \in 1..Len(screenshots) : screenshots[j].uuid # ""}}),
         contaminated |->
            Pick(screenshots,
                 [i \in 1..Len(screenshots) |-> IsContaminated(screenshots[i])]),
         valid |->
            Pick(screenshots,
                 [i \in 1..Len(screenshots) |-> IndicatorCount(screenshots[i]) >= 2])]

applyConservativeValidation(screenshots, deviceType) ==
    LET Decide(checks) ==
            IF checks.patterns > (IF deviceType = "ipad" THEN 6 ELSE 10) THEN <<>>
            ELSE IF deviceType # "ipad" THEN screenshots
            ELSE IF Len(checks.contaminated) > 0 THEN <<>>
            \* validIpadScreenshots.length < screenshots.length * 0.7
            ELSE IF Len(screenshots) > 8
                    /\ 10 * Len(checks.valid) < 7 * Len(screenshots)
            THEN <<>>
            ELSE checks.valid
    IN  IF Len(screenshots) = 0 THEN <<>> ELSE Decide(ConservativeChecks(screenshots))

\* the candidates handed to applyConservativeValidation: every sequence of
\* up to three of five candidates, and longer ones
CandidateSequences ==
    LET Uuids == <<"00000000-0000-0000-0000-000000000001",
                   "00000000-0000-0000-0000-000000000002",
                   "00000000-0000-0000-0000-000000000003",
                   "00000000-0000-0000-0000-000000000004",
                   "00000000-0000-0000-0000-000000000005",
                   "00000000-0000-0000-0000-000000000006",
                   "00000000-0000-0000-0000-000000000007",
                   "00000000-0000-0000-0000-000000000008",
                   "00000000-0000-0000-0000-000000000009",
                   "00000000-0000-0000-0000-00000000000a",
                   "00000000-0000-0000-0000-00000000000b">>
        Strong(n) == ScrapedUrl(Uuids[n], "Home", {"app_ipad_pro"})
        Sliced(n) == ScrapedUrl(Uuids[n], "Home", {"slice_", "ipad"})
        Weak(n) == ScrapedUrl(Uuids[n], "Menu", {"tablet"})
        Plain(n) == ScrapedUrl(Uuids[n], "Menu", {})
        Short == {Strong(1), Sliced(2), Weak(3),
                  ScrapedUrl(Uuids[4], "Home", {"mastodon", "ipad13"}),
                  ScrapedUrl("", "Home", {"imagegen"})}
    IN  UNION {[1..n -> Short] : n \in 0..3}
        \cup { <<ScrapedUrl(KnownContaminatedUuid, "Home", {"ipad_pro"}), Strong(1)>>,
               [i \in 1..7 |-> Strong(i)],
               [i \in 1..9 |-> IF i <= 6 THEN Strong(1 + (i % 3)) ELSE Plain(4)],
               [i \in 1..9 |-> IF i <= 7 THEN Strong(1 + (i % 3)) ELSE Weak(4)],
               [i \in 1..11 |-> Plain(i)] }

\* one call of applyConservativeValidation, as extractScreenshotsFromWeb
\* makes it on the phone and on the tablet candidates
ConservativeValidation ==
    /\ calls = 0
    /\ calls' = 1
    /\ \E screenshots \in CandidateSequences, deviceType \in {"iphone", "ipad"} :
         lastCall' = [op |-> "applyConservativeValidation", urls |-> screenshots,
                      platform |-> deviceType,
                      out |-> applyConservativeValidation(screenshots, deviceType)]
    /\ firstCall' = lastCall'
    /\ UNCHANGED <<interleaved, valVars, chainVars>>

ScrapeSpec == PipelineInit /\ [][ConservativeValidation]_vars
(***************************************************************************)
(* Properties of the validation cache, checked under ValidatorSpec         *)
(***************************************************************************)
\* a step in which caller p starts a fresh validation (a cache miss)
MissStart(p) == vcall[p].pc = "idle" /\ vcall'[p].pc = "exists"

\* a step in which a call is answered from the cache
HitReturn == lastReturn' # lastReturn /\ lastReturn'.hit

\* a step in which a fresh validation of caller p returns
FreshReturn(p) == InFlight(p) /\ vcall'[p].pc = "idle"

\* the key of an in-flight call
KeyOfCall(c) == <<c.appId, c.country>>

\* an entry was stored under k, not cleared since, less than maxCacheAge ago
Fresh(k) ==
    lastStore[k] # NoEntry /\ now - lastStore[k].timestamp < maxCacheAge

\* the validateScreenshots call that returned last was for k and was made less
\* than maxCacheAge ago
Near(k) ==
    /\ lastReturn # NoCall
    /\ lastReturn.key = k
    /\ now - lastReturn.startedAt < maxCacheAge

IsValidationResult(r) ==
    /\ DOMAIN r = {"isValid", "confidence", "issues", "recommendations"}
    /\ r.isValid \in BOOLEAN
    /\ r.confidence \in 0..Scale
    /\ r.issues \in Seq(STRING)
    /\ r.recommendations \in Seq(STRING)

\* C8 (as amended): when a call of validateScreenshots is made while an entry
\* stored for its key by a validation that did not raise, and not cleared
\* since, is less than maxCacheAge old, the call returns that entry's
\* confidence and issues and performs no HEAD request, whatever collections
\* it is given.
ReuseOfStoredEntry ==
    [][ /\ \A p \in Callers : MissStart(p) => ~Fresh(KeyOfCall(vcall'[p]))
        /\ (HitReturn /\ Fresh(lastReturn'.key)) =>
             /\ lastReturn'.result.confidence
                  = lastStore[lastReturn'.key].result.confidence
             /\ lastReturn'.result.issues
                  = lastStore[lastReturn'.key].result.issues
             /\ lastReturn'.heads = 0 ]_vars

\* C8 witness: a call made a tick after the entry was stored was answered from
\* it without a HEAD request
ReusedStoredEntry ==
    /\ lastReturn # NoCall
    /\ lastReturn.hit
    /\ lastReturn.heads = 0
    /\ lastStore[lastReturn.key] # NoEntry
    /\ lastReturn.at = lastStore[lastReturn.key].timestamp + TickMs
    /\ lastReturn.result = lastStore[lastReturn.key].result

\* C8 as stated: a call B made less than maxCacheAge after a call A for the
\* same key returns A's confidence and issues and performs no HEAD request.
ReuseOfEarlierCall ==
    [][ /\ \A p \in Callers : MissStart(p) => ~Near(KeyOfCall(vcall'[p]))
        /\ (HitReturn /\ Near(lastReturn'.key)) =>
             /\ lastReturn'.result.confidence = lastReturn.result.confidence
             /\ lastReturn'.result.issues = lastReturn.result.issues
             /\ lastReturn'.heads = 0 ]_vars

\* C9 (as amended): a call is answered from the cache only from an entry
\* stored, and not cleared since, strictly less than maxCacheAge before; any
\* other call runs a fresh validation, which overwrites the entry with its
\* result and the time of its completion when it completes without raising.
FreshnessOfCache ==
    [][ /\ HitReturn =>
             /\ Fresh(lastReturn'.key)
             /\ lastReturn'.result = lastStore[lastReturn'.key].result
        /\ \A p \in Callers :
             (FreshReturn(p) /\ ~lastReturn'.threw) =>
                validationCache'[KeyOfCall(vcall[p])]
                  = [timestamp |-> now, result |-> lastReturn'.result] ]_vars

\* C9 witness: a call found an entry too old to serve, validated afresh and
\* overwrote it
ExpiredEntryOverwritten ==
    /\ lastReturn # NoCall
    /\ ~lastReturn.hit
    /\ lastReturn.expired
    /\ ~lastReturn.threw
    /\ validationCache[lastReturn.key]
         = [timestamp |-> lastReturn.at, result |-> lastReturn.result]

\* C9 as stated: every fresh validation overwrites the entry.
FreshValidationOverwrites ==
    [][ \A p \in Callers :
          FreshReturn(p) =>
             validationCache'[KeyOfCall(vcall[p])]
               = [timestamp |-> now, result |-> lastReturn'.result] ]_vars

\* C10 (as amended): with overlapping calls for one key, every call returns a
\* complete result, and the entry of a key is absent or exactly the
\* (timestamp, result) pair stored by the last call for it that completed a
\* fresh validation without raising.
CacheToleratesOverlap ==
    /\ lastReturn # NoCall => IsValidationResult(lastReturn.result)
    /\ \A k \in Keys :
         /\ validationCache[k] = lastStore[k]
         /\ validationCache[k] # NoEntry =>
              /\ DOMAIN validationCache[k] = {"timestamp", "result"}
              /\ validationCache[k].timestamp \in 0..now
              /\ IsValidationResult(validationCache[k].result)

\* C10 witness: the last of two overlapping calls has returned and its pair is
\* the entry
OverlappedCallStored ==
    /\ lastReturn # NoCall
    /\ lastReturn.overlapped
    /\ ~lastReturn.hit
    /\ ~lastReturn.threw
    /\ \A p \in Callers : ~InFlight(p)
    /\ validationCache[lastReturn.key]
         = [timestamp |-> lastReturn.at, result |-> lastReturn.result]

\* C10 as stated: once all overlapping calls have finished, the entry is the
\* one written by the call that completed last.
LastCompletedCallWrote ==
    [][ \A p \in Callers :
          ( /\ FreshReturn(p)
            /\ vcall[p].overlapped
            /\ \A q \in Callers \ {p} : ~InFlight(q) ) =>
             validationCache'[KeyOfCall(vcall[p])]
               = [timestamp |-> now, result |-> lastReturn'.result] ]_vars


(***************************************************************************)
(* Properties of the results of validateScreenshots                        *)
(***************************************************************************)
\* confidence is in [0, 1], and isValid says that it is above 0.7 with no
\* issue recorded
WellFormedResult(r) ==
    /\ r.confidence \in 0..Scale
    /\ r.isValid <=> (10 * r.confidence > 7 * Scale /\ r.issues = <<>>)

\* what _performValidation returns on collections with stale, mismatched,
\* duplicated and unreachable URLs
PerformedValidations ==
    {PerformValidation(data, accessible) :
        data \in {r \in PrimaryRecords \cup ValInputs : ~AnalyzeThrows(r)}
                 \cup {Record("6446901002",
                              <<Url("a", "mastodon", 0, 0, -1, 392, 696, "", "png"),
                                MenuOld, HomeNew, HomeOrig>>,
                              <<HomeNew, HomeOrig, MenuPlain>>, <<>>)},
        accessible \in 0..3}

\* C18: every result validateScreenshots returns, after all its checks, when
\* the app page is not found, when the validation raised and on a cache hit,
\* has its confidence in [0, 1] and has isValid true exactly when the
\* confidence is above 0.7 and no issue is recorded; so has every entry of
\* the cache.
ResultsAreWellFormed ==
    /\ lastReturn # NoCall => WellFormedResult(lastReturn.result)
    /\ \A k \in Keys :
         validationCache[k] # NoEntry => WellFormedResult(validationCache[k].result)
    /\ \A r \in PerformedValidations : WellFormedResult(r)

\* a call was answered from the cache with a valid result while the entry of
\* the other country holds an app_not_found result
ValidServedFromCache ==
    /\ lastReturn # NoCall /\ lastReturn.hit
    /\ lastReturn.result.isValid
    /\ lastReturn.result.confidence = Scale
    /\ \E k \in Keys :
         /\ validationCache[k] # NoEntry
         /\ validationCache[k].result.issues = <<"app_not_found">>

\* C20: a call whose existence check of the app page failed returns isValid
\* false, confidence 0 and the single issue app_not_found; it did not raise,
\* whatever its record holds, and the HEAD of the app page is the only
\* request it made.
NotFoundSkipsChecks ==
    (lastReturn # NoCall /\ lastReturn.notFound) =>
        /\ ~lastReturn.hit
        /\ ~lastReturn.threw
        /\ ~lastReturn.result.isValid
        /\ lastReturn.result.confidence = 0
        /\ lastReturn.result.issues = <<"app_not_found">>
        /\ lastReturn.heads = 1

\* C20 witness: a call that found its entry expired returned app_not_found
\* after one request, and the result is what the cache now holds for its key
NotFoundReturned ==
    /\ lastReturn # NoCall
    /\ lastReturn.notFound
    /\ lastReturn.expired
    /\ lastReturn.heads = 1
    /\ lastReturn.result.issues = <<"app_not_found">>
    /\ validationCache[lastReturn.key] # NoEntry
    /\ validationCache[lastReturn.key].result = lastReturn.result

\* the recommendations of a result follow the band of its confidence
FollowsBands(r) ==
    /\ 10 * r.confidence < 3 * Scale =>
          \E i \in 1..Len(r.recommendations) : r.recommendations[i] = "force_refresh"
    /\ (10 * r.confidence >= 3 * Scale /\ 10 * r.confidence < 7 * Scale) =>
          \E i \in 1..Len(r.recommendations) : r.recommendations[i] = "clear_cache"

\* C22: every result validateScreenshots returns with a confidence below 0.3
\* recommends force_refresh, and every result with a confidence from 0.3 up to
\* but not including 0.7 recommends clear_cache.
RecommendationsFollowBands ==
    /\ lastReturn # NoCall => FollowsBands(lastReturn.result)
    /\ \A r \in PerformedValidations : FollowsBands(r)

(***************************************************************************)
(* Claims on getScreenshotsWithFallback                                    *)
(***************************************************************************)
Merged == pc = "Done" /\ outcome.via = "Merge"

Scraped == trail # <<>>

\* C11: the merge helper returns a record that keeps every platform
\* collection the primary record supplies non-empty and takes the others from
\* the scrape, the rest of the record being that of the primary record; with
\* all three platforms supplied it returns the primary record and does not
\* scrape; when the scrape raises it returns the primary record as it is.
MergeKeepsSupplied ==
    Merged =>
      /\ ~outcome.raised
      /\ \A f \in PlatformFields :
           HasScreenshots(appData, f) => Get(outcome.data, f) = Get(appData, f)
      /\ (\A f \in PlatformFields : HasScreenshots(appData, f))
           => ~Scraped /\ outcome.data = appData
      /\ (\E f \in PlatformFields : ~HasScreenshots(appData, f)) => Scraped
      /\ Scraped /\ trail[1].web.threw => outcome.data = appData
      /\ Scraped /\ ~trail[1].web.threw =>
           /\ \A f \in PlatformFields :
                ~HasScreenshots(appData, f) => outcome.data[f] = trail[1].web[f]
           /\ \A f \in DOMAIN appData \ PlatformFields :
                outcome.data[f] = appData[f]
           /\ DOMAIN outcome.data = DOMAIN appData \cup PlatformFields

\* a record that supplies the phone collection only came back with that
\* collection and with the scraped collections of the two other platforms
MergedMissingOnly ==
    /\ Merged /\ Scraped /\ ~trail[1].web.threw
    /\ HasScreenshots(appData, "screenshots")
    /\ trail[1].web.screenshots # <<>>
    /\ trail[1].web.screenshots # appData.screenshots
    /\ outcome.data.screenshots = appData.screenshots
    /\ outcome.data.ipadScreenshots = trail[1].web.ipadScreenshots
    /\ outcome.data.ipadScreenshots # <<>>

(***************************************************************************)
(* Claims on deduplicate, analyzeCollection and filter                     *)
(***************************************************************************)
Members(s) == {s[i] : i \in 1..Len(s)}

Deduplicated == calls > 0 /\ lastCall.op = "deduplicate" /\ ~lastCall.out.raised

\* a call of filter returned, the analyzer having answered within it
Filtered == calls > 0 /\ lastCall.op = "filter" /\ ~lastCall.out.raised

\* the URLs are k_of_n URLs, and every k of 1..n is among them
IsCompleteSequence(urls, n) ==
    /\ \A i \in 1..Len(urls) :
         IsString(urls[i]) /\ HasSequence(urls[i]) /\ urls[i].of = n
    /\ {urls[i].seq : i \in 1..Len(urls)} = 1..n

\* C12: on a complete k_of_N sequence the analyzer answers respect_sequence
\* with maxScreenshots N, and filter returns N URLs of the input, the k-th
\* being a URL numbered k.
CompleteSequenceRespected ==
    (/\ calls > 0 /\ lastCall.op = "filter" /\ lastCall.urls # <<>>
     /\ IsCompleteSequence(lastCall.urls, lastCall.urls[1].of))
    => LET n == lastCall.urls[1].of
       IN /\ ~lastCall.analysis.raised
          /\ lastCall.analysis.value.strategy = "respect_sequence"
          /\ lastCall.analysis.value.maxScreenshots = n
          /\ ~lastCall.out.raised
          /\ Len(lastCall.out.value) = n
          /\ \A k \in 1..n :
               /\ lastCall.out.value[k] \in Members(lastCall.urls)
               /\ lastCall.out.value[k].seq = k

\* a complete sequence of three given out of order, with two URLs numbered 1,
\* came back as three URLs in order
SequenceReordered ==
    /\ Filtered
    /\ Len(lastCall.urls) = 4
    /\ IsCompleteSequence(lastCall.urls, 3)
    /\ lastCall.urls[1].seq = 3
    /\ Len(lastCall.out.value) = 3
    /\ lastCall.out.value[1].ver = "_new"

\* the elements deduplicate looks at
Looked(urls) == Pick(urls, [i \in 1..Len(urls) |-> Truthy(urls[i])])

\* two URLs of the input share a stripped base name and differ in their size
\* or version tokens
HasDuplicateContent(urls) ==
    \E i, j \in 1..Len(urls) :
        /\ i # j /\ IsString(urls[i]) /\ IsString(urls[j])
        /\ ExtractBaseName(urls[i]) = ExtractBaseName(urls[j])
        /\ <<urls[i].w, urls[i].h, urls[i].ver>> # <<urls[j].w, urls[j].h, urls[j].ver>>

\* the returned URLs are one per stripped base name of the input
OnePerBaseName(urls, out) ==
    /\ Len(out) = Cardinality({ExtractBaseName(u) : u \in Members(Looked(urls))})
    /\ \A i, j \in 1..Len(out) :
         i # j => ExtractBaseName(out[i]) # ExtractBaseName(out[j])

\* a group of the deduplicator that holds a _new and an _orig or _retry URL
\* of one base name is represented by a _new URL
NewPreferred(urls, out) ==
    LET analysis == AnalyzeUrlPatterns(Looked(urls))
        Group(id) == {u \in Members(Looked(urls)) : extractContentId(u, analysis) = id}
    IN \A id \in {extractContentId(u, analysis) : u \in Members(Looked(urls))} :
         (\E u, v \in Group(id) :
             /\ ExtractBaseName(u) = ExtractBaseName(v)
             /\ u.ver = "_new" /\ v.ver \in {"_orig", "_retry"})
         => \E r \in Members(out) :
              extractContentId(r, analysis) = id /\ r.ver = "_new"

\* C13: on a sequence with duplicate content, deduplicate returns
\* one representative per distinct stripped base name, a _new one where the
\* group holds a _new and an _orig or _retry URL of one base name.
DeduplicateOnePerBaseName ==
    Deduplicated /\ HasDuplicateContent(lastCall.urls)
    => /\ OnePerBaseName(lastCall.urls, lastCall.out.value)
       /\ NewPreferred(lastCall.urls, lastCall.out.value)

\* C14: when the analyzer answers "none" within a call of filter, the call
\* returns its input, the same URLs in the same order; so a second pass of
\* filter over what a first pass returned, once the analyzer answers "none"
\* on it, returns what the first pass returned.
FilterIdempotentOnceNone ==
    (Filtered /\ lastCall.analysis.value.strategy = "none")
    => lastCall.out.value = lastCall.urls

\* a second pass answered "none" and returned what the first pass, which had
\* dropped URLs, returned
SecondPassKeptAll ==
    /\ Filtered /\ lastCall.again
    /\ lastCall.analysis.value.strategy = "none"
    /\ lastCall.urls # <<>>
    /\ lastCall.out.value = lastCall.urls
    /\ Len(lastCall.urls) < Len(firstCall.urls)
    /\ calls = 2

\* the analyzer answered within a call of filter on a collection that is not
\* empty
Analyzed ==
    calls > 0 /\ lastCall.op = "filter" /\ lastCall.urls # <<>>
    /\ ~lastCall.analysis.raised

\* C15: the decision of the analyzer on a collection that is not empty has
\* maxScreenshots at most the number of URLs of the collection, unless its
\* strategy is "none".
MaxCountWithinTotal ==
    (Analyzed /\ lastCall.analysis.value.strategy # "none")
    => lastCall.analysis.value.maxScreenshots <= Len(lastCall.urls)

\* C16: deduplicate returns as many URLs as the URLs of its input have
\* distinct content identifiers under the dominant pattern of the input, each
\* of them a URL of the input, no two with the same content identifier.
DeduplicateOnePerContentId ==
    Deduplicated =>
      LET analysis == AnalyzeUrlPatterns(Looked(lastCall.urls))
          out == lastCall.out.value
      IN /\ Len(out) = Cardinality({extractContentId(u, analysis) :
                                      u \in Members(Looked(lastCall.urls))})
         /\ \A i \in 1..Len(out) : out[i] \in Members(lastCall.urls)
         /\ \A i, j \in 1..Len(out) :
              i # j => extractContentId(out[i], analysis)
                         # extractContentId(out[j], analysis)

\* four numbered URLs, two of them with the same number, came back as three
GroupOfTwoRepresented ==
    /\ Deduplicated
    /\ AnalyzeUrlPatterns(Looked(lastCall.urls)).dominantPattern = "sequential"
    /\ Len(lastCall.urls) = 4
    /\ Len(lastCall.out.value) = 3

KeyOf(call) == <<call.op, call.urls, call.platform>>

MatchingRules(urls, platform) ==
    LET sequential == detectSequentialPattern(urls)
        slice == detectSlicePattern(urls)
    IN  {r \in 1..6 :
           CASE r = 1 -> sequential.found /\ sequential.isComplete
             [] r = 2 -> slice.found /\ slice.isComplete
             [] r = 3 -> detectRedundancy(urls).hasSignificantRedundancy
             [] r = 4 -> /\ detectQualityTiers(urls).found
                         /\ assessQuality(urls).overallQuality = "mixed"
             [] r = 5 -> Len(urls) > getPlatformLimits(platform, sequential).reasonable
             [] r = 6 -> TRUE}

RuleStrategies ==
    <<"respect_sequence", "respect_slices", "deduplicate_aggressive",
      "quality_filter", "platform_optimize", "none">>

\* the confidences of the rules, in tenths
RuleConfidences == <<9, 9, 8, 7, 6, 10>>

FirstRule(urls, platform) ==
    CHOOSE r \in MatchingRules(urls, platform) :
        \A q \in MatchingRules(urls, platform) : r <= q

GroupOf(urls, url) ==
    Pick(urls, [i \in 1..Len(urls) |->
                  ExtractBaseName(urls[i]) = ExtractBaseName(url)])

\* the sum of the quality scores of the URLs
SumOfScores(urls) ==
    LET RECURSIVE SumFrom(_)
        SumFrom(i) ==
            IF i > Len(urls) THEN 0
            ELSE calculateQualityScore(urls[i]) + SumFrom(i + 1)
    IN  SumFrom(1)

\* C23: under deduplicate_aggressive, filter returns URLs of its input, at
\* most one of each group of URLs with the same stripped file name, the one
\* of its group with the best quality score, the groups in descending order
\* of their mean score, and no more URLs than maxScreenshots.
AggressiveKeepsBestUrls ==
    (Filtered /\ Analyzed /\ lastCall.analysis.value.strategy = "deduplicate_aggressive")
    => LET urls == lastCall.urls
           out == lastCall.out.value
       IN  /\ \A i \in 1..Len(out) : IsString(out[i]) /\ out[i] \in Members(urls)
           /\ \A i, j \in 1..Len(out) :
                i # j => ExtractBaseName(out[i]) # ExtractBaseName(out[j])
           /\ \A i \in 1..Len(out) :
                \A u \in Members(GroupOf(urls, out[i])) :
                    calculateQualityScore(out[i]) >= calculateQualityScore(u)
           /\ \A i, j \in 1..Len(out) :
                i < j =>
                  SumOfScores(GroupOf(urls, out[i])) * Len(GroupOf(urls, out[j]))
                    >= SumOfScores(GroupOf(urls, out[j])) * Len(GroupOf(urls, out[i]))
           /\ Len(out) <= lastCall.analysis.value.maxScreenshots

\* the number a URL carries under the strategy: k of k_of_N, of Slice_k
IndexOf(url, strategy) == IF strategy = "respect_sequence" THEN url.seq ELSE url.slice

\* the URLs of the collection that carry index n within the range of the
\* strategy: k_of_N URLs of the expected N, Slice_k URLs
Carrying(urls, strategy, expected, n) ==
    Pick(urls, [i \in 1..Len(urls) |->
                  IF strategy = "respect_sequence"
                  THEN HasSequence(urls[i]) /\ urls[i].of = expected /\ urls[i].seq = n
                  ELSE HasSlice(urls[i]) /\ urls[i].slice = n])

\* the indices of the range of the strategy
RangeOf(strategy, expected) ==
    IF strategy = "respect_sequence" THEN 1..expected ELSE 0..(expected - 1)

TabletAllOrNothing ==
    (calls = 1 /\ lastCall.op = "applyConservativeValidation"
     /\ lastCall.platform = "ipad")
    => LET checks == ConservativeChecks(lastCall.urls)
       IN  lastCall.out =
             IF \/ checks.patterns > 6
                \/ Len(checks.contaminated) > 0
                \/ /\ Len(lastCall.urls) > 8
                   /\ 10 * Len(checks.valid) < 7 * Len(lastCall.urls)
             THEN <<>>
             ELSE lastCall.urls

(***************************************************************************)
(* Further claims on the analyzer, the filter and the deduplicator         *)
(***************************************************************************)
\* C26: when the analyzer answers platform_optimize, its confidence is 0.6
\* and maxScreenshots is the optimal value of the platform: 6 for iPhone, 8
\* for iPad, 4 for AppleTV.
OptimizeToPlatformOptimal ==
    (Analyzed /\ lastCall.analysis.value.strategy = "platform_optimize")
    => /\ 10 * lastCall.analysis.value.confidence = 6 * Scale
       /\ lastCall.analysis.value.maxScreenshots =
            (CASE lastCall.platform = "iPhone" -> 6
               [] lastCall.platform = "iPad" -> 8
               [] lastCall.platform = "AppleTV" -> 4)

\* C28: filter never turns a non-empty collection into an empty one: called
\* on a sequence of at least one URL, on any platform, it returns at least
\* one URL.
FilterKeepsOneUrl ==
    (Filtered /\ lastCall.urls # <<>>) => lastCall.out.value # <<>>

\* C29: deduplicate is idempotent: called again on the sequence it returned,
\* on the same platform, it returns that sequence unchanged.
DeduplicateIsIdempotent ==
    (Deduplicated /\ lastCall.again) => lastCall.out.value = lastCall.urls

(***************************************************************************)
(* Properties of ScreenshotChain.extract, checked under Spec and LiveSpec  *)
(***************************************************************************)
WarningField == "_screenshotExtractionWarning"
LastErrorField == "_lastError"

IsAttempt(e) == e.op = "attempt"
IsWait(e) == e.op = "wait"

\* the scrape attempts made so far
ScrapeAttempts == Cardinality({i \in 1..Len(trail) : IsAttempt(trail[i])})

NoPrimaryScreenshots == \A f \in PlatformFields : Len(Get(appData, f)) = 0

\* the call made every attempt maxRetries allows and none produced a candidate
EveryAttemptWithoutCandidates ==
    /\ ScrapeAttempts = Max(options.maxRetries, 0)
    /\ \A i \in 1..Len(trail) : IsAttempt(trail[i]) => ~trail[i].candidates

\* C1: extract returns a result and never raises, whatever the primary
\* record, the options and the outcomes of the scrape, the validator and the
\* processing; when the primary record has no screenshot on any platform and
\* no attempt produced a candidate, the result has three empty arrays and a
\* warning.
ExtractIsTotal ==
    pc = "Done" =>
       /\ ~outcome.raised
       /\ PlatformFields \subseteq DOMAIN outcome.data
       /\ (NoPrimaryScreenshots /\ EveryAttemptWithoutCandidates) =>
             /\ \A f \in PlatformFields : outcome.data[f] = <<>>
             /\ WarningField \in DOMAIN outcome.data
             /\ outcome.data[WarningField] = WarningText

\* C1 witness: nothing anywhere, every allowed attempt made, and the call
\* returned its empty, annotated result
ReturnedEmptyWithWarning ==
    /\ pc = "Done"
    /\ NoPrimaryScreenshots
    /\ options.maxRetries = 2
    /\ EveryAttemptWithoutCandidates
    /\ \E i \in 1..Len(trail) : IsAttempt(trail[i]) /\ trail[i].error # Undefined
    /\ ~outcome.raised
    /\ \A f \in PlatformFields : outcome.data[f] = <<>>
    /\ outcome.data[WarningField] = WarningText

\* C2: a call makes at most maxRetries scrape attempts, none when maxRetries
\* is not positive, and ends in Done with an accepted result or the Fallback
\* result, every await of the call returning.
ExtractTerminates ==
    <>( /\ pc = "Done"
        /\ outcome.via \in {"TryPrimary", "TryScrape", "Fallback"}
        /\ ScrapeAttempts <= Max(options.maxRetries, 0) )

\* C2 witness: the call is done after as many attempts as maxRetries allows
DoneAfterAllAttempts ==
    /\ pc = "Done"
    /\ options.maxRetries = MaxRetries
    /\ ScrapeAttempts = MaxRetries
    /\ outcome.via = "Fallback"

\* C3: a wait comes only right after a failed attempt k < maxRetries, lasts
\* 1000 * 2^(k-1) ms and is over in every state that follows it, the start
\* of attempt k+1 included; nothing else separates two attempts, and the
\* history starts with attempt 1.
BackoffDiscipline ==
    /\ trail # <<>> => (IsAttempt(trail[1]) /\ trail[1].k = 1)
    /\ \A i \in 1..Len(trail) :
         /\ IsWait(trail[i]) =>
              /\ i > 1
              /\ IsAttempt(trail[i - 1])
              /\ ~trail[i - 1].success
              /\ trail[i - 1].k = trail[i].k
              /\ trail[i].k < options.maxRetries
              /\ trail[i].ms = 1000 * (2 ^ (trail[i].k - 1))
              /\ now >= trail[i].at + trail[i].ms
              /\ i < Len(trail) =>
                    /\ IsAttempt(trail[i + 1])
                    /\ trail[i + 1].k = trail[i].k + 1
         /\ IsAttempt(trail[i]) =>
              /\ i < Len(trail) => IsWait(trail[i + 1])
              /\ (i = Len(trail) /\ ~trail[i].success
                    /\ trail[i].k < options.maxRetries) => pc = "Delay"
              /\ (trail[i].success \/ trail[i].k >= options.maxRetries) =>
                    i = Len(trail) /\ pc # "Delay"

\* C3 witness: the second wait of a call lasted 2000 ms and attempt 3 followed
SecondWaitDoubled ==
    /\ Len(trail) >= 5
    /\ IsWait(trail[2]) /\ trail[2].ms = 1000
    /\ IsWait(trail[4]) /\ trail[4].ms = 2000
    /\ IsAttempt(trail[5]) /\ trail[5].k = 3

\* C4 as stated: with forceRefresh false and skipValidation true, a primary
\* record with a non-empty collection on any of the three platforms is
\* accepted in TryPrimary, deduplicated and filtered, and no scrape attempt is
\* made.
PrimaryAcceptedOnAnyPlatform ==
    ( /\ pc = "Done"
      /\ ~options.forceRefresh
      /\ options.skipValidation
      /\ ~NoPrimaryScreenshots ) =>
        /\ outcome.via = "TryPrimary"
        /\ trail = <<>>
        /\ ~ProcessThrows(appData)
        /\ outcome.data = ProcessScreenshots(appData)

\* the loop goes on after the failed attempt trail[i]
LoopContinuesAfter(i) ==
    IF i < Len(trail)
    THEN IsWait(trail[i + 1]) /\ trail[i].k < options.maxRetries
    ELSE \/ trail[i].k < options.maxRetries /\ pc = "Delay"
         \/ /\ trail[i].k >= options.maxRetries
            /\ pc = "Fallback" \/ (pc = "Done" /\ outcome.via = "Fallback")

\* C5: with skipValidation false, an attempt that produced a candidate is
\* accepted if and only if the confidence of the validation obtained for it
\* is at least 0.5; a rejected attempt is a failed attempt of the loop.
ScrapeAcceptedByConfidence ==
    \A i \in 1..Len(trail) :
       (IsAttempt(trail[i]) /\ trail[i].candidates /\ ~options.skipValidation) =>
          /\ trail[i].validated
          /\ trail[i].success <=> (2 * trail[i].confidence >= Scale)
          /\ ~trail[i].success => LoopContinuesAfter(i)

\* C5 witness: an attempt was accepted with a confidence of exactly 0.5, and
\* an earlier one of the same call was rejected
AcceptedAtThreshold ==
    /\ pc = "Done"
    /\ outcome.via = "TryScrape"
    /\ ~options.skipValidation
    /\ trail[Len(trail)].validated
    /\ 2 * trail[Len(trail)].confidence = Scale
    /\ \E i \in 1..Len(trail) :
         /\ IsAttempt(trail[i]) /\ trail[i].validated /\ ~trail[i].success
         /\ 2 * trail[i].confidence < Scale

\* C6: a result carries the warning if and only if the call ended through
\* Fallback; a result accepted in TryPrimary or TryScrape carries neither the
\* warning nor the last error, a Fallback result carries both.
WarningIffFallback ==
    (pc = "Done" /\ ~outcome.raised) =>
       /\ (WarningField \in DOMAIN outcome.data) <=> (outcome.via = "Fallback")
       /\ (LastErrorField \in DOMAIN outcome.data) <=> (outcome.via = "Fallback")
       /\ outcome.via = "Fallback" =>
             /\ outcome.data[WarningField] = WarningText
             /\ outcome.data[LastErrorField] # ""

\* C6 witness: a Fallback result with the screenshots of the primary record,
\* the warning and the last error
FallbackResultAnnotated ==
    /\ pc = "Done"
    /\ outcome.via = "Fallback"
    /\ Len(outcome.data["screenshots"]) > 0
    /\ outcome.data[WarningField] = WarningText
    /\ outcome.data[LastErrorField] \in ErrorMessages

\* the attempts that ended with an internal error
RaisedAttempts ==
    {i \in 1..Len(trail) : IsAttempt(trail[i]) /\ trail[i].error.type = "Error"}

\* C7 as stated: the Fallback result carries the message of the most recent
\* internal error of the call, whatever followed it, and 'Unknown error' only
\* when no attempt raised.
LastErrorIsMostRecent ==
    (pc = "Done" /\ outcome.via = "Fallback" /\ ~outcome.raised) =>
       outcome.data[LastErrorField] =
          IF RaisedAttempts = {} THEN "Unknown error"
          ELSE trail[SetMax(RaisedAttempts)].error.message

\* the attempts of the history are numbered 1, 2, ... and every one but the
\* last failed
AttemptsInOrder(history) ==
    LET attempts == SelectSeq(history, IsAttempt)
    IN  \A i \in 1..Len(attempts) :
          /\ attempts[i].k = i
          /\ i < Len(attempts) => ~attempts[i].success

\* C19: within one call TryPrimary is left at its first step and never
\* entered again, and it comes before every scrape attempt; with forceRefresh
\* this step consults neither the primary record nor the validator and goes
\* on to the loop; attempt k is started for k = 1, 2, ... up to maxRetries,
\* attempt k + 1 only after attempt k failed; Fallback is entered only when
\* every attempt maxRetries allows was made and failed; nothing of the call
\* changes once it is Done.
StagesInOrder ==
    [][ /\ pc' = "TryPrimary" => pc = "TryPrimary"
        /\ (pc = "TryPrimary" /\ pc' # pc) =>
              /\ trail = <<>> /\ trail' = <<>>
              /\ options.forceRefresh =>
                    /\ pc' \in {"TryScrape", "Fallback"}
                    /\ UNCHANGED <<validationCache, outcome>>
        /\ (pc' = "TryScrape" /\ <<pc, attempt>> # <<pc', attempt'>>) =>
              /\ pc \in {"TryPrimary", "TryScrape", "Delay"}
              /\ attempt' = attempt + 1
              /\ attempt' = ScrapeAttempts' + 1
              /\ attempt' <= options.maxRetries
        /\ AttemptsInOrder(trail')
        /\ trail' # trail => (pc \in {"TryScrape", "Delay"} /\ Len(trail') = Len(trail) + 1)
        /\ (pc' = "Fallback" /\ pc # "Fallback") =>
              /\ ScrapeAttempts' = Max(options.maxRetries, 0)
              /\ \A i \in 1..Len(trail') : IsAttempt(trail'[i]) => ~trail'[i].success
        /\ (pc' = "Done" /\ pc # "Done") =>
              outcome'.via = (IF pc = "Delay" THEN "none" ELSE pc)
        /\ pc = "Done" => UNCHANGED chainVars ]_vars

\* C19 witness: with forceRefresh the call went past TryPrimary, failed its
\* first attempt and accepted the result of the second
RefreshAcceptedAtSecondAttempt ==
    /\ pc = "Done"
    /\ options.forceRefresh
    /\ HasPrimaryScreenshots(appData)
    /\ outcome.via = "TryScrape"
    /\ ScrapeAttempts = 2
    /\ ~trail[1].success

\* C27: with skipValidation false, the validation that decides on the
\* candidate of a scrape attempt is made in this attempt, on the processed
\* collections of the candidate: it is not an entry the cache holds from the
\* validation of the primary record or of an earlier candidate, and the
\* confidence that accepts a candidate is one its own validation can give.
CandidateValidatedOnItsOwn ==
    [][ (/\ pc = "TryScrape"
         /\ Len(trail') = Len(trail) + 1
         /\ trail'[Len(trail')].validated)
        => /\ ~CacheHit(validationCache[CacheKey(ChainAppId, ChainCountry)], now)
           /\ pc' = "Done" =>
                \E world \in ValidatorWorlds(outcome'.data) :
                    trail'[Len(trail')].confidence =
                      ValidateScreenshots([k \in Keys |-> NoEntry], now, outcome'.data,
                                          ChainAppId, ChainCountry, world).result.confidence
      ]_vars

\* C30: with skipValidation true, a call never asks the validator: no step of
\* the call (TryPrimary, a scrape attempt, its wait, Fallback) changes the
\* validation cache, no attempt of its history is validated, and what
\* tryItunesApi and tryWebScraping answer is the same whatever the HEAD
\* requests of the validator would be answered.
SkippedValidationAsksNothing ==
    [][ options.skipValidation =>
          /\ validationCache' = validationCache
          /\ \A i \in 1..Len(trail') :
               IsAttempt(trail'[i]) => ~trail'[i].validated
          /\ (pc = "TryPrimary" /\ HasPrimaryScreenshots(appData)) =>
               \A world \in ValidatorWorlds(appData) :
                 TryItunesApi(appData, ChainAppId, ChainCountry, TRUE,
                              validationCache, now, world)
                   = TryItunesApi(appData, ChainAppId, ChainCountry, TRUE,
                                  validationCache, now, NoValidation)
          /\ pc = "TryScrape" =>
               \A web \in WebOutcomes :
                 (/\ ~web.threw
                  /\ Len(web.screenshots) + Len(web.ipadScreenshots)
                       + Len(web.appletvScreenshots) > 0
                  /\ ~ProcessThrows(WebData(appData, web))) =>
                   \A world \in ValidatorWorlds(ProcessScreenshots(WebData(appData, web))) :
                     TryWebScraping(appData, ChainAppId, ChainCountry, TRUE, web,
                                    validationCache, now, world)
                       = TryWebScraping(appData, ChainAppId, ChainCountry, TRUE, web,
                                        validationCache, now, NoValidation)
      ]_vars

\* a call with skipValidation took a candidate unvalidated at its second
\* attempt, after a wait, and the cache is as it was
SkippedAtSecondAttempt ==
    /\ options.skipValidation
    /\ pc = "Done" /\ outcome.via = "TryScrape"
    /\ Len(trail) = 3
    /\ trail[3].candidates /\ ~trail[3].validated
    /\ validationCache = [k \in Keys |-> NoEntry]
====
